---- MODULE Spec2Model ----
(***************************************************************************)
(* Field-level encryption layer of the citizen-services backend:           *)
(*   FortanixDSMService  (backend/services/fortanixService.js)  HSM client *)
(*   EncryptionService   (backend/services/encryptionService.js) codec     *)
(*   encryptedCitizenService / encryptedServiceRequestService              *)
(*                       (backend/database/encryptedDb.js)      storage    *)
(*   startServer         (backend/server.js)                    startup    *)
(*                                                                         *)
(* Four specifications share the variables:                                *)
(*   Spec        the server: startup, then the storage operations, each    *)
(*               request handled to completion                             *)
(*   SpecClient  the HSM client on its own, any configuration, any         *)
(*               argument                                                  *)
(*   SpecCodec   the codec on its own, any entity                          *)
(*   SpecConc    in-flight callers of ensureAuthenticated(), interleaved   *)
(*               at the awaits                                             *)
(***************************************************************************)
EXTENDS Integers, Sequences, FiniteSets, TLC

VARIABLES
    cfg,          \* process.env as read by the constructor and startServer
    accessToken,  \* FortanixDSMService.accessToken
    tokenExpiry,  \* FortanixDSMService.tokenExpiry
    demoMode,     \* FortanixDSMService.demoMode
    now,          \* Date.now(), in ms
    hsm,          \* the remote HSM: reachable or not, the expires_in it grants
    server,       \* position of startServer
    encryptionService, \* encryptedDb.js: the module variable is non-null
    citizens,     \* table citizens, in insertion order
    requests,     \* table service_requests, in insertion order
    last,         \* the operation that completed last: arguments, result, events
    prev,         \* the operation before it, when `last` continues it
    ticks,        \* clock advances so far
    calls         \* in-flight calls: position and locals of each

vars == <<cfg, accessToken, tokenExpiry, demoMode, now, hsm, server,
          encryptionService, citizens, requests, last, prev, ticks, calls>>

(***************************************************************************)
(* Bounds of the model.                                                    *)
(***************************************************************************)
MaxStrLen == 1          \* longest plaintext string, in UTF-16 code units
MaxTicks == 2           \* clock advances per behaviour
MaxRows == 1            \* rows the operations add to a table
NumCallers == 2         \* concurrent in-flight callers

(***************************************************************************)
(* Program constants.                                                      *)
(***************************************************************************)
SafetyMarginMs == 60000
MinKeyLen == 10
DemoExpiryMs == 3600 * 1000
ReplacementChar == 65533 \* U+FFFD, what the UTF-8 encoder writes for an unpaired surrogate

(***************************************************************************)
(* JavaScript values.  Every value is a record with a field k.             *)
(*   null, undefined                                                       *)
(*   str   a string given by its UTF-16 code units, not JSON text          *)
(*   json  the text JSON.stringify({cipher, iv}) (an absent key: UNDEF)    *)
(*   b64   the base64 text of a byte sequence                              *)
(*   tmpl  the template string `encrypted:${body}:${ts}`                   *)
(*   ct    a ciphertext the HSM produced; iv an initialisation vector      *)
(***************************************************************************)
NULL == [k |-> "null"]
UNDEF == [k |-> "undefined"]
Str(cu) == [k |-> "str", cu |-> cu]
EmptyStr == Str(<<>>)
JsonText(c, v) == [k |-> "json", cipher |-> c, iv |-> v]
\* A number, and a string known by its text.
Num(n) == [k |-> "num", n |-> n]
Text(t) == [k |-> "text", of |-> t]

\* A test that lets the empty string through.
Nullish(v) == v = NULL \/ v = UNDEF

\* !v
Falsy(v) == v = NULL \/ v = UNDEF \/ v = EmptyStr
Truthy(v) == ~Falsy(v)

IsHigh(u) == u >= 55296 /\ u <= 56319
IsLow(u) == u >= 56320 /\ u <= 57343

\* Code unit i of cu is a surrogate without its partner.
LoneSurrogate(cu, i) ==
    \/ IsHigh(cu[i]) /\ ~(i < Len(cu) /\ IsLow(cu[i + 1]))
    \/ IsLow(cu[i]) /\ ~(i > 1 /\ IsHigh(cu[i - 1]))

\* The scalar values a string encodes to: an unpaired surrogate becomes U+FFFD.
WellFormed(t) ==
    IF t.k = "str"
    THEN Str([i \in DOMAIN t.cu |->
                 IF LoneSurrogate(t.cu, i) THEN ReplacementChar ELSE t.cu[i]])
    ELSE IF t.k = "tmpl"
    THEN [k |-> "tmpl",
          body |-> IF t.body.k = "str"
                   THEN Str([i \in DOMAIN t.body.cu |->
                               IF LoneSurrogate(t.body.cu, i)
                               THEN ReplacementChar ELSE t.body.cu[i]])
                   ELSE t.body,
          ts |-> t.ts]
    ELSE t

\* Buffer.from(text, 'utf8'): the bytes are those of the well-formed text.
Utf8Encode(t) == [k |-> "bytes", of |-> WellFormed(t)]
\* buffer.toString('base64') and Buffer.from(text, 'base64')
Base64Encode(b) == [k |-> "b64", bytes |-> b]
Base64Decode(t) == t.bytes

\* A decoder that hands back the base64 text of the bytes, undecoded.
KeepBase64(b) == Base64Encode(b)

\* buffer.toString('utf8')
Utf8Decode(b) == b.of

\* JSON.stringify({cipher: c, iv: v})
JsonStringify(c, v) == JsonText(c, v)
\* JSON.parse(text): throws on anything that is not JSON text.
JsonParse(t) ==
    IF t.k = "json" THEN [ok |-> TRUE, cipher |-> t.cipher, iv |-> t.iv]
    ELSE [ok |-> FALSE]

(***************************************************************************)
(* FortanixDSMService.  The session is the record                          *)
(*   c = [accessToken, tokenExpiry, demoMode];                             *)
(* the world a call runs in is                                             *)
(*   e = [now, up, ein, iv, cryptoOk]:  the clock, whether the HSM answers *)
(*   the session-auth request, the expires_in it grants, the iv it draws,  *)
(*   and whether it answers the crypto request.                            *)
(* Every operation returns [c, ret, threw, log]: the session after it, the *)
(* value returned, whether it threw, and the events it caused.             *)
(***************************************************************************)
DemoToken == [k |-> "demo-access-token"]
HsmToken(e) == [k |-> "tok", iat |-> e.now, ein |-> e.ein]

Session == [accessToken |-> accessToken, tokenExpiry |-> tokenExpiry,
            demoMode |-> demoMode]

EvAuthenticate == [ev |-> "authenticate"]
EvAuthPost(ok) == [ev |-> "auth_post", ok |-> ok]
\* A crypto request that carries the bearer token only.
EvCryptoPostBearerOnly(op, c, e, ok) ==
    [ev |-> "crypto_post", op |-> op, token |-> c.accessToken,
     expiry |-> c.tokenExpiry, at |-> e.now, cert |-> FALSE, ok |-> ok]

EvCryptoPost(op, c, e, ok) ==
    [ev |-> "crypto_post", op |-> op, token |-> c.accessToken,
     expiry |-> c.tokenExpiry, at |-> e.now,
     cert |-> (cfg.authMethod = "trusted_ca"), ok |-> ok]

Returned(c, v, log) == [c |-> c, ret |-> v, threw |-> FALSE, log |-> log]
Threw(c, log) == [c |-> c, ret |-> UNDEF, threw |-> TRUE, log |-> log]

\* The demo test of authenticateWithAPIKey on a key that is a string.
LooksDemo(key) == key.fff \/ key.your \/ key.len = 0 \/ key.len < MinKeyLen

\* An API-key authentication that applies the demo test only to a client
\* without a token: a renewal goes to the HSM.
authenticateWithAPIKeyRenewReal(c, e) ==
    IF cfg.apiKey = UNDEF
    THEN Threw(c, <<EvAuthenticate>>)
    ELSE IF LooksDemo(cfg.apiKey) /\ c.accessToken = NULL
    THEN Returned([accessToken |-> DemoToken,
                   tokenExpiry |-> e.now + DemoExpiryMs,
                   demoMode |-> TRUE],
                  DemoToken, <<EvAuthenticate>>)
    ELSE IF e.up
    THEN Returned([accessToken |-> HsmToken(e),
                   tokenExpiry |-> e.now + e.ein * 1000,
                   demoMode |-> FALSE],
                  HsmToken(e), <<EvAuthenticate, EvAuthPost(TRUE)>>)
    ELSE Threw(c, <<EvAuthenticate, EvAuthPost(FALSE)>>)

\* A demo test that takes an undefined key for a demo key.
authenticateWithAPIKeyUnsetIsDemo(c, e) ==
    IF cfg.apiKey = UNDEF \/ LooksDemo(cfg.apiKey)
    THEN Returned([accessToken |-> DemoToken,
                   tokenExpiry |-> e.now + DemoExpiryMs,
                   demoMode |-> TRUE],
                  DemoToken, <<EvAuthenticate>>)
    ELSE IF e.up
    THEN Returned([accessToken |-> HsmToken(e),
                   tokenExpiry |-> e.now + e.ein * 1000,
                   demoMode |-> FALSE],
                  HsmToken(e), <<EvAuthenticate, EvAuthPost(TRUE)>>)
    ELSE Threw(c, <<EvAuthenticate, EvAuthPost(FALSE)>>)

authenticateWithAPIKey(c, e) ==
    IF cfg.apiKey = UNDEF
    THEN Threw(c, <<EvAuthenticate>>)      \* undefined.includes: TypeError
    ELSE IF LooksDemo(cfg.apiKey)
    THEN Returned([accessToken |-> DemoToken,
                   tokenExpiry |-> e.now + DemoExpiryMs,
                   demoMode |-> TRUE],
                  DemoToken, <<EvAuthenticate>>)
    ELSE IF e.up
    THEN Returned([accessToken |-> HsmToken(e),
                   tokenExpiry |-> e.now + e.ein * 1000,
                   demoMode |-> FALSE],
                  HsmToken(e), <<EvAuthenticate, EvAuthPost(TRUE)>>)
    ELSE Threw(c, <<EvAuthenticate, EvAuthPost(FALSE)>>)

\* A trusted-CA authentication that, finding no certificate files, falls
\* back to the demo session.
authenticateWithTrustedCAOrDemo(c, e) ==
    IF ~cfg.certs
    THEN Returned([accessToken |-> DemoToken,
                   tokenExpiry |-> e.now + DemoExpiryMs,
                   demoMode |-> TRUE],
                  DemoToken, <<EvAuthenticate>>)
    ELSE IF e.up
    THEN Returned([accessToken |-> HsmToken(e),
                   tokenExpiry |-> e.now + e.ein * 1000,
                   demoMode |-> FALSE],
                  HsmToken(e), <<EvAuthenticate, EvAuthPost(TRUE)>>)
    ELSE Threw(c, <<EvAuthenticate, EvAuthPost(FALSE)>>)

authenticateWithTrustedCA(c, e) ==
    IF ~cfg.certs
    THEN Threw(c, <<EvAuthenticate>>)      \* Certificate files not found
    ELSE IF e.up
    THEN Returned([accessToken |-> HsmToken(e),
                   tokenExpiry |-> e.now + e.ein * 1000,
                   demoMode |-> FALSE],
                  HsmToken(e), <<EvAuthenticate, EvAuthPost(TRUE)>>)
    ELSE Threw(c, <<EvAuthenticate, EvAuthPost(FALSE)>>)

\* An authenticate() that drops the session when the exchange fails.
authenticateOrReset(c, e) ==
    LET a == IF cfg.authMethod = "trusted_ca"
             THEN authenticateWithTrustedCA(c, e)
             ELSE authenticateWithAPIKey(c, e)
    IN IF a.threw
       THEN Threw([accessToken |-> NULL, tokenExpiry |-> NULL,
                   demoMode |-> FALSE], a.log)
       ELSE a

authenticate(c, e) ==
    IF cfg.authMethod = "trusted_ca"
    THEN authenticateWithTrustedCA(c, e)
    ELSE authenticateWithAPIKey(c, e)

\* Variants of the check of ensureAuthenticated(): one that always asks for
\* a new session, one that never looks at the expiry.
AlwaysNeedsAuth(c, e) == TRUE
NeedsAuthNoToken(c, e) == c.accessToken = NULL

\* !this.accessToken || Date.now() >= this.tokenExpiry - 60000
NeedsAuth(c, e) ==
    \/ c.accessToken = NULL
    \/ e.now >= c.tokenExpiry - SafetyMarginMs

ensureAuthenticated(c, e) ==
    IF NeedsAuth(c, e)
    THEN LET a == authenticate(c, e) IN
         IF a.threw THEN a ELSE Returned(a.c, a.c.accessToken, a.log)
    ELSE Returned(c, c.accessToken, <<>>)

(***************************************************************************)
(* The HSM.  It accepts a crypto request that carries a token it issued    *)
(* and that has not expired; encrypt answers {cipher, iv}, decrypt answers *)
(* {plain} for a cipher it produced under that iv and rejects any other.   *)
(***************************************************************************)
TokenAccepted(tok, e) ==
    tok.k = "tok" /\ e.now < tok.iat + tok.ein * 1000

HsmCipher(plain, iv) == [k |-> "ct", of |-> plain, iv |-> iv]
HsmIv(n) == [k |-> "iv", n |-> n]

HsmAnswers(c, e) == e.up /\ e.cryptoOk /\ TokenAccepted(c.accessToken, e)

HsmCanDecrypt(cipher, iv) == cipher.k = "ct" /\ cipher.iv = iv

\* `encrypted:${plaintext}:${Date.now()}`
DemoTemplate(plaintext, e) == [k |-> "tmpl", body |-> plaintext, ts |-> e.now]

\* An encryptData that hands its argument back.
encryptDataPlain(c, e, plaintext) == Returned(c, plaintext, <<>>)

encryptData(c, e, plaintext) ==
    IF Falsy(plaintext) THEN Returned(c, NULL, <<>>)
    ELSE LET a == ensureAuthenticated(c, e) IN
         IF a.threw THEN Threw(a.c, a.log)
         ELSE IF a.c.demoMode
         THEN Returned(a.c,
                       Base64Encode(Utf8Encode(DemoTemplate(plaintext, e))),
                       a.log)
         ELSE LET plain == Base64Encode(Utf8Encode(plaintext))
                  ok == HsmAnswers(a.c, e)
                  log == Append(a.log, EvCryptoPost("encrypt", a.c, e, ok))
              IN IF ok
                 THEN Returned(a.c,
                               JsonStringify(HsmCipher(plain, HsmIv(e.iv)),
                                             HsmIv(e.iv)),
                               log)
                 ELSE Threw(a.c, log)

\* The text is an envelope: it parses and has a truthy cipher and iv.
IsEnvelope(t) ==
    LET p == JsonParse(t) IN p.ok /\ Truthy(p.cipher) /\ Truthy(p.iv)

decryptData(c, e, ciphertext) ==
    IF Falsy(ciphertext) THEN Returned(c, NULL, <<>>)
    ELSE LET a == ensureAuthenticated(c, e) IN
         IF a.threw THEN Threw(a.c, a.log)
         ELSE IF ~IsEnvelope(ciphertext)
         THEN Returned(a.c, ciphertext, a.log)   \* legacy plaintext
         ELSE LET p == JsonParse(ciphertext)
                  ok == HsmAnswers(a.c, e) /\ HsmCanDecrypt(p.cipher, p.iv)
                  log == Append(a.log, EvCryptoPost("decrypt", a.c, e, ok))
              IN IF ok
                 THEN Returned(a.c, Utf8Decode(Base64Decode(p.cipher.of)), log)
                 ELSE Threw(a.c, log)

\* The string the self-test of initialize() encrypts and decrypts.
TestData == Str(<<83>>)

initialize(c, e) ==
    LET a == authenticate(c, e) IN
    IF a.threw THEN Threw(a.c, a.log)
    ELSE LET enc == encryptData(a.c, e, TestData) IN
         IF enc.threw THEN Threw(enc.c, a.log \o enc.log)
         ELSE LET dec == decryptData(enc.c, e, enc.ret)
                  log == a.log \o enc.log \o dec.log
              IN IF dec.threw THEN Threw(dec.c, log)
                 ELSE IF dec.ret = TestData THEN Returned(dec.c, UNDEF, log)
                 ELSE Threw(dec.c, log)

\* error.message of what authenticate() threw: the TypeError of
\* undefined.includes, the missing certificate files, or the failed POST.
ErrorMessage(r) ==
    IF \E i \in DOMAIN r.log : r.log[i].ev = "auth_post"
    THEN Text("Request failed")
    ELSE IF cfg.authMethod = "trusted_ca"
    THEN Text("Certificate files not found")
    ELSE Text("Cannot read properties of undefined")

Health(status, authenticated, error) ==
    [k |-> "health", status |-> status, authenticated |-> authenticated,
     error |-> error, endpoint |-> cfg.endpoint]

\* A healthCheck() that lets the error of ensureAuthenticated() through.
healthCheckRethrow(c, e) ==
    LET a == ensureAuthenticated(c, e) IN
    IF a.threw THEN a
    ELSE Returned(a.c, Health("healthy", Truthy(a.c.accessToken), UNDEF), a.log)

healthCheck(c, e) ==
    LET a == ensureAuthenticated(c, e) IN
    IF a.threw
    THEN Returned(a.c, Health("unhealthy", UNDEF, ErrorMessage(a)), a.log)
    ELSE Returned(a.c, Health("healthy", Truthy(a.c.accessToken), UNDEF), a.log)


(***************************************************************************)
(* EncryptionService: the field codec.  An entity is a function from its   *)
(* keys to values.  The calls of one codec operation are numbered 1, 2, .. *)
(* and w = [fail, iv] says at which of them the HSM does not answer.       *)
(***************************************************************************)
CitizenSensitive ==
    <<"firstName", "lastName", "email", "phone", "address", "zipCode",
      "dateOfBirth">>
CitizenPublic == {"citizenId", "city", "state", "status", "createdAt", "updatedAt"}
RequestSensitive == <<"notes", "applicationData">>
RequestPublic ==
    {"requestNumber", "citizenId", "serviceTypeId", "status", "priority",
     "submittedDate", "assignedAgent"}

Range(q) == {q[i] : i \in DOMAIN q}

\* `${field}_encrypted`
EncKey(f) == f \o "_encrypted"

\* obj[key]
Get(o, key) == IF key \in DOMAIN o THEN o[key] ELSE UNDEF
\* obj[key] = v
Put(o, key, v) == [j \in DOMAIN o \cup {key} |-> IF j = key THEN v ELSE o[j]]
\* delete obj[key]
Del(o, key) == [j \in DOMAIN o \ {key} |-> o[j]]

CallWorld(w, n) ==
    [now |-> now, up |-> hsm.up /\ n \notin w.fail, ein |-> hsm.ein,
     iv |-> w.iv, cryptoOk |-> n \notin w.fail]

\* encryptData threw for this field: the catch block logs it and rethrows.
EvEncryptFailed(f) == [ev |-> "encrypt_failed", field |-> f]

RECURSIVE EncryptFields(_, _, _, _, _)
\* A loop that, like the read side, notes a failed field and goes on.
EncryptFieldsLenient(st, data, fields, i, w) ==
    IF i > Len(fields) THEN Returned(st.c, st.out, st.log)
    ELSE IF Truthy(Get(data, fields[i]))
    THEN LET r == encryptData(st.c, CallWorld(w, st.n + 1), data[fields[i]]) IN
         EncryptFields(
             [c |-> r.c,
              out |-> IF r.threw THEN st.out
                      ELSE Del(Put(st.out, EncKey(fields[i]), r.ret), fields[i]),
              n |-> st.n + 1,
              log |-> st.log \o r.log \o
                      (IF r.threw THEN <<EvEncryptFailed(fields[i])>> ELSE <<>>)],
             data, fields, i + 1, w)
    ELSE EncryptFields(st, data, fields, i + 1, w)

\* The loop of encryptCitizenData / encryptServiceRequestData from field i on;
\* st = [c, out, n, log]: session, encryptedData, calls made, events.
EncryptFields(st, data, fields, i, w) ==
    IF i > Len(fields) THEN Returned(st.c, st.out, st.log)
    ELSE IF Truthy(Get(data, fields[i]))
    THEN LET r == encryptData(st.c, CallWorld(w, st.n + 1), data[fields[i]]) IN
         IF r.threw
         THEN Threw(r.c, st.log \o r.log \o <<EvEncryptFailed(fields[i])>>)
         ELSE EncryptFields(
                  [c |-> r.c,
                   out |-> Del(Put(st.out, EncKey(fields[i]), r.ret), fields[i]),
                   n |-> st.n + 1,
                   log |-> st.log \o r.log],
                  data, fields, i + 1, w)
    ELSE EncryptFields(st, data, fields, i + 1, w)

encryptCitizenData(c, w, citizenData) ==
    EncryptFields([c |-> c, out |-> citizenData, n |-> 0, log |-> <<>>],
                  citizenData, CitizenSensitive, 1, w)

encryptServiceRequestData(c, w, requestData) ==
    EncryptFields([c |-> c, out |-> requestData, n |-> 0, log |-> <<>>],
                  requestData, RequestSensitive, 1, w)

CitizenFallback ==
    [firstName |-> "[Encrypted]", lastName |-> "[Data]",
     email |-> "[Encrypted Email]", phone |-> "[Encrypted Phone]",
     address |-> "[Encrypted Address]", zipCode |-> "[Protected]",
     dateOfBirth |-> "[Protected DOB]"]
RequestFallback ==
    [notes |-> "[Encrypted Notes]",
     applicationData |-> "[Encrypted Application Data]"]

\* One label for every field.
LabelGeneric(fallbackValues, f) == [k |-> "label", text |-> "[Encrypted Data]"]

\* fallbackValues[field] || '[Encrypted Data]', as a value
Label(fallbackValues, f) ==
    [k |-> "label",
     text |-> IF f \in DOMAIN fallbackValues THEN fallbackValues[f]
              ELSE "[Encrypted Data]"]

\* The catch block of the field loop ran for this field.
EvCaught(f) == [ev |-> "caught", field |-> f]

RECURSIVE DecryptFields(_, _, _, _, _, _)
\* The loop of decryptCitizenData / decryptServiceRequestData from field i on.
DecryptFields(st, data, fields, fallbackValues, i, w) ==
    IF i > Len(fields) THEN Returned(st.c, st.out, st.log)
    ELSE IF Truthy(Get(data, EncKey(fields[i])))
    THEN LET r == decryptData(st.c, CallWorld(w, st.n + 1),
                              data[EncKey(fields[i])])
             v == IF r.threw THEN Label(fallbackValues, fields[i]) ELSE r.ret
         IN DecryptFields(
                [c |-> r.c,
                 out |-> Del(Put(st.out, fields[i], v), EncKey(fields[i])),
                 n |-> st.n + 1,
                 log |-> st.log \o r.log \o
                         (IF r.threw THEN <<EvCaught(fields[i])>> ELSE <<>>)],
                data, fields, fallbackValues, i + 1, w)
    ELSE DecryptFields(st, data, fields, fallbackValues, i + 1, w)

decryptCitizenData(c, w, encryptedCitizenData) ==
    IF encryptedCitizenData = NULL THEN Returned(c, NULL, <<>>)
    ELSE DecryptFields(
             [c |-> c, out |-> encryptedCitizenData, n |-> 0, log |-> <<>>],
             encryptedCitizenData, CitizenSensitive, CitizenFallback, 1, w)

decryptServiceRequestData(c, w, encryptedRequestData) ==
    IF encryptedRequestData = NULL THEN Returned(c, NULL, <<>>)
    ELSE DecryptFields(
             [c |-> c, out |-> encryptedRequestData, n |-> 0, log |-> <<>>],
             encryptedRequestData, RequestSensitive, RequestFallback, 1, w)


(***************************************************************************)
(* getCitizenAnalytics.  Each table of counts is a plain object: a lookup  *)
(* of a key the object does not own finds what Object.prototype holds      *)
(* under that name, and an assignment to '__proto__' of a value that is    *)
(* not an object is dropped by the setter.                                 *)
(***************************************************************************)
\* Names every plain object inherits (two of them).
ProtoKeys == {Text("constructor"), Text("__proto__")}

\* The property key a value is converted to.
PropertyKey(v) ==
    IF v = NULL THEN Text("null")
    ELSE IF v = UNDEF THEN Text("undefined")
    ELSE v

\* counts[key]
Lookup(counts, key) ==
    IF key \in DOMAIN counts THEN counts[key]
    ELSE IF key \in ProtoKeys THEN [k |-> "object", of |-> key]
    ELSE UNDEF

\* (v || 0) + 1: a number is incremented; an object or a string is
\* concatenated with "1".
PlusOne(v) ==
    IF v = UNDEF \/ v = Num(0) THEN Num(1)
    ELSE IF v.k = "num" THEN Num(v.n + 1)
    ELSE [k |-> "concat", of |-> v]

\* counts[v] = (counts[v] || 0) + 1
Count(counts, v) ==
    LET key == PropertyKey(v)
        new == PlusOne(Lookup(counts, key))
    IN IF key = Text("__proto__") THEN counts
       ELSE Put(counts, key, new)

\* createdAt.substring(0, 7)
Month(createdAt) == Text(createdAt.month)

RECURSIVE CountRecords(_, _, _)
\* The forEach of getCitizenAnalytics from record i on.
CountRecords(analytics, citizenRecords, i) ==
    IF i > Len(citizenRecords) THEN analytics
    ELSE LET citizen == citizenRecords[i] IN
         CountRecords(
             [totalCitizens |-> analytics.totalCitizens,
              citiesCounts |-> Count(analytics.citiesCounts, citizen.city),
              statesCounts |-> Count(analytics.statesCounts, citizen.state),
              statusCounts |-> Count(analytics.statusCounts, citizen.status),
              monthlyRegistrations |->
                  Count(analytics.monthlyRegistrations,
                        Month(citizen.createdAt))],
             citizenRecords, i + 1)

getCitizenAnalytics(c, citizenRecords) ==
    Returned(c,
             CountRecords([totalCitizens |-> Len(citizenRecords),
                           citiesCounts |-> <<>>, statesCounts |-> <<>>,
                           statusCounts |-> <<>>,
                           monthlyRegistrations |-> <<>>],
                          citizenRecords, 1),
             <<>>)

(***************************************************************************)
(* Inputs.                                                                 *)
(***************************************************************************)
Alphabet == {65, 55296}      \* "A" and the unpaired high surrogate U+D800

Strings(n) == UNION {[1..m -> Alphabet] : m \in 0..n}

\* Non-empty plaintext strings: plain text, and text that is itself JSON
\* ("{}" and an object with a cipher and an iv key).
Plaintexts ==
    {Str(cu) : cu \in Strings(MaxStrLen) \ {<<>>}}
        \cup {JsonText(UNDEF, UNDEF), JsonText(Str(<<65>>), Str(<<65>>))}

\* Arguments of encryptData.
PlainArgs == Plaintexts \cup {NULL, UNDEF, EmptyStr}

\* Stored texts no encryptData call produced: legacy plaintext, JSON text
\* lacking a key or with an empty one, a cipher the HSM never issued.
LegacyTexts ==
    Plaintexts \cup {JsonText(Str(<<65>>), UNDEF), JsonText(EmptyStr, Str(<<65>>))}

ApiKey(len, fff, your) == [k |-> "key", len |-> len, fff |-> fff, your |-> your]

\* FORTANIX_API_KEY: unset, '', 9 characters, 'your-api-key-here', the
\* placeholder uuid 'ffffffff-ff-ff-ff-ff-f...', and two keys of an application.
ApiKeys ==
    {UNDEF, ApiKey(0, FALSE, FALSE), ApiKey(9, FALSE, FALSE),
     ApiKey(17, FALSE, TRUE), ApiKey(36, TRUE, FALSE),
     ApiKey(10, FALSE, FALSE), ApiKey(36, FALSE, FALSE)}

Config(method, key, certs, endpoint, keyId) ==
    [authMethod |-> method, apiKey |-> key, certs |-> certs,
     endpoint |-> endpoint, keyId |-> keyId]

\* Configurations of a FortanixDSMService constructed on its own.
ClientConfigs ==
    {Config("api_key", key, FALSE, TRUE, TRUE) : key \in ApiKeys}
        \cup {Config("trusted_ca", ApiKey(36, FALSE, FALSE), certs, TRUE, TRUE) :
                 certs \in BOOLEAN}

\* expires_in the HSM grants, in seconds: below the margin, and above it.
ExpiresIn == {30, 600}
HsmStates == [up : BOOLEAN, ein : ExpiresIn]

\* Clock advances: half the margin, and up to the margin of a demo token.
TickSteps == {SafetyMarginMs \div 2, DemoExpiryMs - SafetyMarginMs}

NoOp == [op |-> "none"]

\* The record of a completed operation: its name and argument, whether the
\* session had no token when it began, the clock then, its result, and the
\* expiry of the session it left.
Op(name, arg, r) ==
    [op |-> name, arg |-> arg, fresh |-> (accessToken = NULL), at |-> now,
     ret |-> r.ret, threw |-> r.threw, log |-> r.log,
     expiry |-> r.c.tokenExpiry]

World(ok) == [now |-> now, up |-> hsm.up, ein |-> hsm.ein, iv |-> 1, cryptoOk |-> ok]

\* A session assignment that renews the token of a session and keeps the
\* expiry the session had.
SetSessionKeepExpiry(c) ==
    /\ accessToken' = c.accessToken
    /\ tokenExpiry' = IF accessToken = NULL THEN c.tokenExpiry ELSE tokenExpiry
    /\ demoMode' = c.demoMode

SetSession(c) ==
    /\ accessToken' = c.accessToken
    /\ tokenExpiry' = c.tokenExpiry
    /\ demoMode' = c.demoMode

\* Operation o continues the one before it: it decrypts what encryptData just
\* returned, it is the second of two ensureAuthenticated() calls, or it is
\* the retry of an encryptData call whose authentication exchange failed.
Continues(o) ==
    \/ /\ last.op = "encryptData" /\ o.op = "decryptData"
       /\ ~last.threw /\ last.ret # NULL /\ o.arg = last.ret
    \/ last.op = "ensureAuthenticated" /\ o.op = "ensureAuthenticated"
    \/ /\ last.op = "encryptData" /\ o.op = "encryptData"
       /\ last.threw /\ o.arg = last.arg
       /\ \E i \in DOMAIN last.log :
              last.log[i].ev = "auth_post" /\ ~last.log[i].ok

Record(o) ==
    /\ last' = o
    /\ prev' = IF Continues(o) THEN last ELSE NoOp

(***************************************************************************)
(* The environment: the clock and the HSM.                                 *)
(***************************************************************************)
Tick ==
    /\ ticks < MaxTicks
    /\ \E d \in TickSteps : now' = now + d
    /\ ticks' = ticks + 1
    /\ UNCHANGED <<cfg, accessToken, tokenExpiry, demoMode, hsm, server,
                   encryptionService, citizens, requests, last, prev, calls>>

HsmChange ==
    /\ \E h \in HsmStates \ {hsm} : hsm' = h
    /\ UNCHANGED <<cfg, accessToken, tokenExpiry, demoMode, now, server,
                   encryptionService, citizens, requests, last, prev, ticks,
                   calls>>

(***************************************************************************)
(* SpecClient: the client's operations, called one after another.          *)
(***************************************************************************)
ClientFrame == UNCHANGED <<cfg, now, hsm, server, encryptionService, citizens,
                           requests, ticks, calls>>

CallEnsureAuthenticated ==
    /\ \E r \in {ensureAuthenticated(Session, World(TRUE))} :
         /\ SetSession(r.c)
         /\ Record(Op("ensureAuthenticated", NULL, r))
    /\ ClientFrame

CallEncryptData ==
    /\ \E s \in PlainArgs, ok \in BOOLEAN :
         \E r \in {encryptData(Session, World(ok), s)} :
           /\ SetSession(r.c)
           /\ Record(Op("encryptData", s, r))
    /\ ClientFrame

CallAuthenticate ==
    /\ \E r \in {authenticate(Session, World(TRUE))} :
         /\ SetSession(r.c)
         /\ Record(Op("authenticate", NULL, r))
    /\ ClientFrame

CallHealthCheck ==
    /\ \E r \in {healthCheck(Session, World(TRUE))} :
         /\ SetSession(r.c)
         /\ Record(Op("healthCheck", NULL, r))
    /\ ClientFrame

CallInitialize ==
    /\ \E ok \in BOOLEAN :
         \E r \in {initialize(Session, World(ok))} :
           /\ SetSession(r.c)
           /\ Record(Op("initialize", NULL, r))
    /\ ClientFrame

\* What encryptData returned last, when it returned a text.
Held == IF last.op = "encryptData" /\ ~last.threw THEN {last.ret} ELSE {}

CallDecryptData ==
    /\ \E t \in LegacyTexts \cup Held \cup {NULL, UNDEF, EmptyStr},
          ok \in BOOLEAN :
         \E r \in {decryptData(Session, World(ok), t)} :
           /\ SetSession(r.c)
           /\ Record(Op("decryptData", t, r))
    /\ ClientFrame

InitClient ==
    /\ cfg \in ClientConfigs
    /\ accessToken = NULL
    /\ tokenExpiry = NULL
    /\ demoMode = FALSE
    /\ now = 0
    /\ hsm \in HsmStates
    /\ server = "none"
    /\ encryptionService = TRUE
    /\ citizens = <<>>
    /\ requests = <<>>
    /\ last = NoOp
    /\ prev = NoOp
    /\ ticks = 0
    /\ calls = <<>>

NextClient ==
    \/ Tick
    \/ HsmChange
    \/ CallEnsureAuthenticated
    \/ CallEncryptData
    \/ CallDecryptData
    \/ CallAuthenticate
    \/ CallHealthCheck
    \/ CallInitialize

SpecClient == InitClient /\ [][NextClient]_vars


(***************************************************************************)
(* SpecCodec: the codec's operations on their own.                         *)
(***************************************************************************)
ABSENT == [k |-> "absent"]

\* The entity whose first j sensitive keys (with the suffix) hold a, whose
\* other sensitive keys hold b or are absent, and whose other keys are pub.
MkEntity(fields, suffix, j, a, b, pub) ==
    LET held == {i \in 1..Len(fields) : i <= j \/ b # ABSENT}
        at(key) == CHOOSE i \in held : fields[i] \o suffix = key
    IN [key \in {fields[i] \o suffix : i \in held} \cup DOMAIN pub |->
           IF key \in DOMAIN pub THEN pub[key]
           ELSE IF at(key) <= j THEN a ELSE b]

\* The calls at which the HSM does not answer, out of n: none, one, or all.
FailChoices(n) == {{}} \cup {{m} : m \in 1..n} \cup {1..n}

CitizenPub == [citizenId |-> "CTZ002", city |-> "Springfield", state |-> "IL"]
RequestPub ==
    [requestNumber |-> "REQ-1", citizenId |-> 1, serviceTypeId |-> 1,
     status |-> "submitted", priority |-> "normal",
     assignedAgent |-> "Auto-Assigned"]
WithId(pub) == [key \in DOMAIN pub \cup {"id"} |->
                   IF key = "id" THEN 1 ELSE pub[key]]

\* Values of a sensitive field of an entity to store.
FieldTexts == {Str(<<65>>), JsonText(UNDEF, UNDEF)}
FieldEmpties == {ABSENT, UNDEF, EmptyStr}

\* The envelope the HSM produces for text s.
EnvelopeFor(s) ==
    JsonStringify(HsmCipher(Base64Encode(Utf8Encode(s)), HsmIv(1)), HsmIv(1))

\* Values of an `_encrypted` column: legacy plaintext, an envelope, an
\* envelope the HSM rejects, demo-mode output.
StoredTexts ==
    {Str(<<65>>), EnvelopeFor(Str(<<65>>)),
     JsonText(Str(<<65>>), Str(<<65>>)),
     Base64Encode(Utf8Encode([k |-> "tmpl", body |-> Str(<<65>>), ts |-> 0]))}
StoredEmpties == {ABSENT, NULL}

CodecWorld(fail) == [fail |-> fail, iv |-> 1]

CodecFrame == UNCHANGED <<cfg, now, hsm, server, encryptionService, citizens,
                          requests, ticks, calls>>

\* The codec's operations are functions of the entity, the session and the
\* HSM: each is applied once, to a session that is new or was established
\* by an earlier ensureAuthenticated().
CodecIdle == last.op \in {"none", "ensureAuthenticated"}

CallEncryptCitizenData ==
    /\ CodecIdle
    /\ \E j \in 0..Len(CitizenSensitive), a \in FieldTexts, b \in FieldEmpties,
          pub \in {CitizenPub, WithId(CitizenPub)} :
         \E fail \in FailChoices(j) :
           \E data \in {MkEntity(CitizenSensitive, "", j, a, b, pub)} :
           \E r \in {encryptCitizenData(Session, CodecWorld(fail), data)} :
             /\ SetSession(r.c)
             /\ Record(Op("encryptCitizenData", data, r))
    /\ CodecFrame

CallEncryptServiceRequestData ==
    /\ CodecIdle
    /\ \E j \in 0..Len(RequestSensitive), a \in FieldTexts, b \in FieldEmpties,
          pub \in {RequestPub, WithId(RequestPub)} :
         \E fail \in FailChoices(j) :
           \E data \in {MkEntity(RequestSensitive, "", j, a, b, pub)} :
           \E r \in {encryptServiceRequestData(Session, CodecWorld(fail), data)} :
             /\ SetSession(r.c)
             /\ Record(Op("encryptServiceRequestData", data, r))
    /\ CodecFrame

CallDecryptCitizenData ==
    /\ CodecIdle
    /\ \E j \in 0..Len(CitizenSensitive), a \in StoredTexts, b \in StoredEmpties :
         \E fail \in FailChoices(j) :
           \E data \in {MkEntity(CitizenSensitive, "_encrypted", j, a, b,
                                  WithId(CitizenPub))} :
           \E r \in {decryptCitizenData(Session, CodecWorld(fail), data)} :
             /\ SetSession(r.c)
             /\ Record(Op("decryptCitizenData", data, r))
    /\ CodecFrame

CallDecryptServiceRequestData ==
    /\ CodecIdle
    /\ \E j \in 0..Len(RequestSensitive), a \in StoredTexts, b \in StoredEmpties :
         \E fail \in FailChoices(j) :
           \E data \in {MkEntity(RequestSensitive, "_encrypted", j, a, b,
                                  WithId(RequestPub))} :
           \E r \in {decryptServiceRequestData(Session, CodecWorld(fail), data)} :
             /\ SetSession(r.c)
             /\ Record(Op("decryptServiceRequestData", data, r))
    /\ CodecFrame

\* Rows of SELECT citizenId, city, state, status, createdAt FROM citizens:
\* city and state are what the request body held.
CitizenRecords ==
    {[citizenId |-> Text("CTZ002"), city |-> city, state |-> g[1],
      status |-> g[2], createdAt |-> [k |-> "datetime", month |-> g[3]]] :
        city \in {Str(<<83>>), Text("constructor"), Text("__proto__")},
        g \in {<<Str(<<73>>), Text("active"), "2024-01">>,
               <<Str(<<67>>), Text("inactive"), "2024-02">>}}

RecordLists == UNION {[1..n -> CitizenRecords] : n \in 0..(MaxRows + 1)}

CallGetCitizenAnalytics ==
    /\ CodecIdle
    /\ \E citizenRecords \in RecordLists :
         \E r \in {getCitizenAnalytics(Session, citizenRecords)} :
           /\ SetSession(r.c)
           /\ Record(Op("getCitizenAnalytics", citizenRecords, r))
    /\ CodecFrame

\* An application key, a placeholder key, and enclave certificates.
CodecConfigs ==
    {Config("api_key", ApiKey(36, FALSE, FALSE), FALSE, TRUE, TRUE),
     Config("api_key", ApiKey(17, FALSE, TRUE), FALSE, TRUE, TRUE),
     Config("trusted_ca", ApiKey(36, FALSE, FALSE), TRUE, TRUE, TRUE)}

InitCodec ==
    /\ cfg \in CodecConfigs
    /\ accessToken = NULL
    /\ tokenExpiry = NULL
    /\ demoMode = FALSE
    /\ now = 0
    /\ hsm \in HsmStates
    /\ server = "none"
    /\ encryptionService = TRUE
    /\ citizens = <<>>
    /\ requests = <<>>
    /\ last = NoOp
    /\ prev = NoOp
    /\ ticks = 0
    /\ calls = <<>>

NextCodec ==
    \/ HsmChange
    \/ CallEnsureAuthenticated
    \/ CallEncryptCitizenData
    \/ CallEncryptServiceRequestData
    \/ CallDecryptCitizenData
    \/ CallDecryptServiceRequestData
    \/ CallGetCitizenAnalytics

SpecCodec == InitCodec /\ [][NextCodec]_vars


(***************************************************************************)
(* Spec: the server.  startServer runs once; then the storage operations   *)
(* of encryptedDb.js run, each to completion, on entities shaped as the    *)
(* routes build them.  A table is the sequence of its rows; a row is a     *)
(* function from column names to values (the columns status, createdAt,    *)
(* updatedAt, which no operation here reads or writes by value, are left   *)
(* out).                                                                   *)
(***************************************************************************)
\* FORTANIX_DSM_ENDPOINT && FORTANIX_API_KEY && FORTANIX_KEY_ID
Configured ==
    cfg.endpoint /\ cfg.apiKey # UNDEF /\ cfg.apiKey.len > 0 /\ cfg.keyId

\* Sample rows of seedSampleData: plaintext in the `_encrypted` columns.
SeedText == Str(<<74>>)
SeedCitizenId == Str(<<67, 49>>)
NewCitizenId == Str(<<67, 50>>)
City == Str(<<83>>)
State == Str(<<73>>)
SeedCitizens ==
    <<[id |-> 1, citizenId |-> SeedCitizenId,
       firstName_encrypted |-> SeedText, lastName_encrypted |-> SeedText,
       email_encrypted |-> SeedText, phone_encrypted |-> SeedText,
       address_encrypted |-> SeedText, zipCode_encrypted |-> SeedText,
       dateOfBirth_encrypted |-> SeedText, city |-> City, state |-> State]>>
SeedRequestNumber == Str(<<82, 49>>)
NewRequestNumber == Str(<<82, 50>>)
SeedRequests ==
    <<[id |-> 1, requestNumber |-> SeedRequestNumber, citizenId |-> Num(1),
       serviceTypeId |-> Num(1), status |-> Text("submitted"), priority |-> Text("normal"),
       assignedAgent |-> Text("Agent Smith"), notes_encrypted |-> SeedText,
       applicationData_encrypted |-> NULL]>>

\* A statement handed to runQuery / getQuery, and whether it succeeded.
Stmt(sql, params, ok) == [sql |-> sql, params |-> params, ok |-> ok]

\* A parameter as sqlite binds it: undefined is stored as NULL.
Bind(v) == IF v = UNDEF THEN NULL ELSE v

\* What a storage operation leaves: the codec's result, the statements it
\* issued, and the tables.
Done(r, stmts, cs, rs) ==
    [c |-> r.c, ret |-> r.ret, threw |-> r.threw, log |-> r.log,
     stmts |-> stmts, citizens |-> cs, requests |-> rs]

RowsWith(table, col, v) == {i \in DOMAIN table : table[i][col] = v}

CitizenInsertColumns ==
    {"citizenId", "city", "state"} \cup {EncKey(f) : f \in Range(CitizenSensitive)}
CitizenUpdateColumns ==
    {"city", "state"} \cup {EncKey(f) : f \in Range(CitizenSensitive)}
RequestInsertColumns ==
    {"requestNumber", "citizenId", "serviceTypeId", "status", "priority",
     "assignedAgent"} \cup {EncKey(f) : f \in Range(RequestSensitive)}

Params(encryptedData, columns) ==
    [col \in columns |-> Bind(Get(encryptedData, col))]

\* citizenId TEXT UNIQUE NOT NULL, city TEXT NOT NULL, state TEXT NOT NULL
CitizenInsertOk(params) ==
    /\ params["citizenId"] # NULL /\ params["city"] # NULL
    /\ params["state"] # NULL
    /\ RowsWith(citizens, "citizenId", params["citizenId"]) = {}
CitizenUpdateOk(id, params) ==
    RowsWith(citizens, "id", id) # {} =>
        params["city"] # NULL /\ params["state"] # NULL
\* requestNumber TEXT UNIQUE NOT NULL
RequestInsertOk(params) ==
    /\ params["requestNumber"] # NULL
    /\ RowsWith(requests, "requestNumber", params["requestNumber"]) = {}

NewRow(table, params) ==
    [col \in DOMAIN params \cup {"id"} |->
        IF col = "id" THEN Len(table) + 1 ELSE params[col]]
\* An UPDATE that keeps a column whose new value is null (COALESCE).
SetRowCoalesce(row, params) ==
    [col \in DOMAIN row |->
        IF col \in DOMAIN params /\ params[col] # NULL
        THEN params[col] ELSE row[col]]
SetRow(row, params) ==
    [col \in DOMAIN row |-> IF col \in DOMAIN params THEN params[col] ELSE row[col]]

\* The value of a singleton set: Only({F(x) : x \in {e}}) is F(e), with e
\* evaluated once.
Only(S) == CHOOSE x \in S : TRUE

\* encryptionService.x(...) while the module variable is still null
NullService(c) == Done(Threw(c, <<>>), <<>>, citizens, requests)

\* encryptedCitizenService.getById
citizenGetById(c, w, table, id) ==
    LET found == RowsWith(table, "id", id)
        select == Stmt("SELECT citizens", [id |-> id], TRUE)
    IN IF found = {}
       THEN Done(Returned(c, NULL, <<>>), <<select>>, table, requests)
       ELSE IF ~encryptionService
       THEN Done(Threw(c, <<>>), <<select>>, table, requests)
       ELSE Only({Done(dec, <<select>>, table, requests) :
                     dec \in {decryptCitizenData(
                                  c, w, table[CHOOSE i \in found : TRUE])}})

\* encryptedCitizenService.getByCitizenId
citizenGetByCitizenId(c, w, table, citizenId) ==
    LET found == RowsWith(table, "citizenId", citizenId)
        select == Stmt("SELECT citizens", [citizenId |-> citizenId], TRUE)
    IN IF found = {}
       THEN Done(Returned(c, NULL, <<>>), <<select>>, table, requests)
       ELSE IF ~encryptionService
       THEN Done(Threw(c, <<>>), <<select>>, table, requests)
       ELSE Only({Done(dec, <<select>>, table, requests) :
                     dec \in {decryptCitizenData(
                                  c, w, table[CHOOSE i \in found : TRUE])}})

\* The HSM as the callback of record i meets it: the calls of w.fail fail
\* in the records of w.rows (in every record when w names none).
RowWorld(w, i) ==
    IF "rows" \in DOMAIN w /\ i \notin w.rows
    THEN [fail |-> {}, iv |-> w.iv]
    ELSE [fail |-> w.fail, iv |-> w.iv]
ListWorld(fail, rows) == [fail |-> fail, iv |-> 1, rows |-> rows]

RECURSIVE DecryptRows(_, _, _, _)
\* The map of getAll over the selected rows, newest row first, from row i
\* down to the first.
DecryptRows(st, table, i, w) ==
    IF i = 0 THEN Returned(st.c, st.out, st.log)
    ELSE Only({DecryptRows([c |-> dec.c, out |-> Append(st.out, dec.ret),
                            log |-> st.log \o dec.log],
                           table, i - 1, w) :
                  dec \in {decryptCitizenData(st.c, RowWorld(w, i), table[i])}})

\* A getAll that keeps what it decrypted: it writes each returned value,
\* fallback labels included, back into the row's column.
citizenGetAllWriteBack(c, w, table) ==
    LET select == Stmt("SELECT citizens", <<>>, TRUE)
        all == DecryptRows([c |-> c, out |-> <<>>, log |-> <<>>],
                           table, Len(table), w)
        back(i) == all.ret[Len(table) + 1 - i]
        kept == [i \in DOMAIN table |->
                   [key \in DOMAIN table[i] |->
                      IF \E f \in Range(CitizenSensitive) :
                             key = EncKey(f) /\ f \in DOMAIN back(i)
                      THEN back(i)[CHOOSE f \in Range(CitizenSensitive) :
                                       key = EncKey(f)]
                      ELSE table[i][key]]]
    IN Done(all, <<select>>, kept, requests)

\* encryptedCitizenService.getAll
citizenGetAll(c, w, table) ==
    LET select == Stmt("SELECT citizens", <<>>, TRUE) IN
    IF table # <<>> /\ ~encryptionService
    THEN Done(Threw(c, <<>>), <<select>>, table, requests)
    ELSE Only({Done(all, <<select>>, table, requests) :
                  all \in {DecryptRows([c |-> c, out |-> <<>>, log |-> <<>>],
                                       table, Len(table), w)}})

\* create, once encryptCitizenData has returned or thrown enc
citizenInsert(enc, citizenData) ==
    IF enc.threw THEN Done(enc, <<>>, citizens, requests)
    ELSE LET params == Params(enc.ret, CitizenInsertColumns)
             ok == CitizenInsertOk(params)
             insert == Stmt("INSERT citizens", params, ok)
         IN IF ok
            THEN Done(Returned(enc.c,
                               Put(citizenData, "id", Len(citizens) + 1),
                               enc.log),
                      <<insert>>,
                      Append(citizens, NewRow(citizens, params)), requests)
            ELSE Done(Threw(enc.c, enc.log), <<insert>>, citizens, requests)

\* encryptedCitizenService.create
citizenCreate(c, w, citizenData) ==
    IF ~encryptionService THEN NullService(c)
    ELSE Only({citizenInsert(enc, citizenData) :
                  enc \in {encryptCitizenData(c, w, citizenData)}})

\* update, once encryptCitizenData has returned or thrown enc; w2 is the HSM
\* during the read that follows
citizenSet(enc, w2, id) ==
    IF enc.threw THEN Done(enc, <<>>, citizens, requests)
    ELSE LET params == Params(enc.ret, CitizenUpdateColumns)
             ok == CitizenUpdateOk(id, params)
             update == Stmt("UPDATE citizens", params, ok)
             table == [i \in DOMAIN citizens |->
                          IF citizens[i]["id"] = id
                          THEN SetRow(citizens[i], params)
                          ELSE citizens[i]]
         IN IF ok
            THEN Only({Done([c |-> read.c, ret |-> read.ret,
                             threw |-> read.threw, log |-> enc.log \o read.log],
                            <<update>> \o read.stmts, read.citizens, requests) :
                          read \in {citizenGetById(enc.c, w2, table, id)}})
            ELSE Done(Threw(enc.c, enc.log), <<update>>, citizens, requests)

\* encryptedCitizenService.update
citizenUpdate(c, w, w2, id, citizenData) ==
    IF ~encryptionService THEN NullService(c)
    ELSE Only({citizenSet(enc, w2, id) :
                  enc \in {encryptCitizenData(c, w, citizenData)}})

\* create, once encryptServiceRequestData has returned or thrown enc
requestInsert(enc, requestData) ==
    IF enc.threw THEN Done(enc, <<>>, citizens, requests)
    ELSE LET params == Params(enc.ret, RequestInsertColumns)
             ok == RequestInsertOk(params)
             insert == Stmt("INSERT service_requests", params, ok)
         IN IF ok
            THEN Done(Returned(enc.c,
                               Put(requestData, "id", Len(requests) + 1),
                               enc.log),
                      <<insert>>,
                      citizens, Append(requests, NewRow(requests, params)))
            ELSE Done(Threw(enc.c, enc.log), <<insert>>, citizens, requests)

\* encryptedServiceRequestService.create
requestCreate(c, w, requestData) ==
    IF ~encryptionService THEN NullService(c)
    ELSE Only({requestInsert(enc, requestData) :
                  enc \in {encryptServiceRequestData(c, w, requestData)}})

\* The citizen columns the query of encryptedServiceRequestService.getAll
\* selects, and the fields its callback copies from decryptCitizenData.
RequestCitizenFields == <<"firstName", "lastName", "email", "phone", "address">>
JoinedColumns ==
    {EncKey(f) : f \in Range(RequestCitizenFields)} \cup {"city", "state"}

\* JOIN citizens c ON r.citizenId = c.id
JoinCitizen(r, cs) ==
    {j \in DOMAIN cs :
        r["citizenId"].k = "num" /\ cs[j]["id"] = r["citizenId"].n}

\* The rows the query selects, oldest first.  The joins are inner joins: a
\* request is selected only with its citizen.  (service_types and
\* government_agencies hold their seeded rows, and every request here refers
\* to service type 1.)
Joined(rs, cs) ==
    LET kept == SelectSeq(rs, LAMBDA r : JoinCitizen(r, cs) # {}) IN
    [k \in DOMAIN kept |->
        LET c == cs[CHOOSE j \in JoinCitizen(kept[k], cs) : TRUE] IN
        [key \in DOMAIN kept[k] \cup JoinedColumns |->
            IF key \in DOMAIN kept[k] THEN kept[k][key] ELSE c[key]]]

\* The object the callback returns: the row, the decrypted fields, and the
\* `_encrypted` keys set to undefined.
RequestRecord(request, decryptedCitizen, decryptedServiceRequest) ==
    LET fromCitizen == Range(RequestCitizenFields)
        fromRequest == Range(RequestSensitive)
    IN [key \in DOMAIN request \cup fromCitizen \cup fromRequest |->
           IF key \in fromCitizen THEN Get(decryptedCitizen, key)
           ELSE IF key \in fromRequest THEN Get(decryptedServiceRequest, key)
           ELSE IF key \in {EncKey(f) : f \in fromCitizen \cup fromRequest}
           THEN UNDEF
           ELSE request[key]]

\* The callback of getAll's map for one selected row.
decryptRequest(c, w, request) ==
    LET citizenData ==
            [key \in {EncKey(f) : f \in Range(RequestCitizenFields)} |->
                request[key]]
        serviceRequestData ==
            [key \in {EncKey(f) : f \in Range(RequestSensitive)} |->
                request[key]]
    IN Only({Only({Returned(dr.c, RequestRecord(request, dc.ret, dr.ret),
                            dc.log \o dr.log) :
                      dr \in {decryptServiceRequestData(dc.c, w,
                                                        serviceRequestData)}}) :
                dc \in {decryptCitizenData(c, w, citizenData)}})

RECURSIVE DecryptRequests(_, _, _, _)
\* Promise.all over the selected rows, newest first (ORDER BY submittedDate
\* DESC): the result holds the callbacks' values in the order of the rows.
DecryptRequests(st, rows, i, w) ==
    IF i = 0 THEN Returned(st.c, st.out, st.log)
    ELSE Only({DecryptRequests([c |-> dec.c, out |-> Append(st.out, dec.ret),
                                log |-> st.log \o dec.log],
                               rows, i - 1, w) :
                  dec \in {decryptRequest(st.c, RowWorld(w, i), rows[i])}})

\* encryptedServiceRequestService.getAll
requestGetAll(c, w, rs, cs) ==
    LET select == Stmt("SELECT service_requests", <<>>, TRUE)
        rows == Joined(rs, cs)
    IN IF rows # <<>> /\ ~encryptionService
       THEN Done(Threw(c, <<>>), <<select>>, cs, rs)
       ELSE Only({Done(all, <<select>>, cs, rs) :
                     all \in {DecryptRequests([c |-> c, out |-> <<>>, log |-> <<>>],
                                              rows, Len(rows), w)}})

\* The record of a completed storage operation.
DbOp(name, id, arg, r) ==
    [op |-> name, id |-> id, arg |-> arg, fresh |-> (accessToken = NULL),
     at |-> now, ret |-> r.ret, threw |-> r.threw, log |-> r.log,
     expiry |-> r.c.tokenExpiry, stmts |-> r.stmts]

Commit(o, r) ==
    /\ SetSession(r.c)
    /\ citizens' = r.citizens
    /\ requests' = r.requests
    /\ Record(o)

ServerFrame == UNCHANGED <<cfg, now, hsm, server, encryptionService, ticks, calls>>

\* Values the routes put under a sensitive key.
FieldText == Str(<<65>>)

\* POST /api/citizens: every sensitive field is a non-empty string (the
\* names are validated, the others default).
NewCitizens ==
    {[citizenId |-> cid, firstName |-> FieldText, lastName |-> FieldText,
      email |-> FieldText, phone |-> FieldText, address |-> FieldText,
      city |-> City, state |-> State, zipCode |-> FieldText,
      dateOfBirth |-> FieldText] : cid \in {SeedCitizenId, NewCitizenId}}

\* PUT /api/citizens/:id: the names are validated; the other keys hold what
\* the body holds, undefined or '' included; there is no dateOfBirth key.
UpdateFields == <<"firstName", "lastName", "email", "phone", "address", "zipCode">>
CitizenUpdateBody(j, b, pub) ==
    MkEntity(UpdateFields, "", j, FieldText, b, [city |-> pub, state |-> pub])
CitizenUpdates ==
    {CitizenUpdateBody(Len(UpdateFields), UNDEF, City),
     CitizenUpdateBody(2, UNDEF, City),
     CitizenUpdateBody(3, EmptyStr, City),
     CitizenUpdateBody(2, EmptyStr, UNDEF)}

\* POST /api/service-requests: notes defaults to '', applicationData is JSON
\* text.
NewRequest(rn, notes, app) ==
    [requestNumber |-> rn, citizenId |-> Num(1), serviceTypeId |-> Num(1),
     status |-> Text("submitted"), priority |-> Text("normal"),
     assignedAgent |-> Text("Auto-Assigned"), notes |-> notes,
     applicationData |-> app]
\* A request for a citizen id no row of citizens has.  The database is
\* opened without PRAGMA foreign_keys, so SQLite does not enforce the
\* FOREIGN KEY clause of service_requests and the INSERT succeeds.
OrphanRequest ==
    [NewRequest(NewRequestNumber, FieldText, JsonText(UNDEF, UNDEF))
        EXCEPT !.citizenId = Num(Len(SeedCitizens) + MaxRows + 1)]
NewRequests ==
    {NewRequest(rn, b[1], b[2]) :
        rn \in {SeedRequestNumber, NewRequestNumber},
        b \in {<<EmptyStr, JsonText(UNDEF, UNDEF)>>,
               <<FieldText, JsonText(UNDEF, UNDEF)>>,
               <<FieldText, JsonText(FieldText, FieldText)>>}}
        \cup {OrphanRequest}

\* The call at which the HSM does not answer, out of n: none, the first, the
\* middle one, the last.
FailPoints(n) == {{}} \cup {{m} : m \in {1, (n + 1) \div 2, n} \cap 1..n}

\* Number of truthy sensitive fields: the encryptData calls of one write.
Calls(data, fields) ==
    Cardinality({i \in DOMAIN fields : Truthy(Get(data, fields[i]))})

\* A startServer that lets the error of initializeEncryption() reach its
\* outer catch: process.exit(1).
StartServerStrict ==
    /\ server = "starting"
    /\ \E dbOk \in BOOLEAN :
         IF ~dbOk
         THEN \* initializeDatabase rejects: process.exit(1)
              /\ server' = "exited"
              /\ Record(Op("startServer", [db |-> FALSE], Threw(Session, <<>>)))
              /\ UNCHANGED <<accessToken, tokenExpiry, demoMode,
                             encryptionService, citizens, requests>>
         ELSE /\ citizens' = IF citizens = <<>> THEN SeedCitizens ELSE citizens
              /\ requests' = IF citizens = <<>> THEN SeedRequests ELSE requests
              /\ IF Configured
                 THEN \E r \in {initialize(Session, World(TRUE))} :
                        /\ server' = IF r.threw THEN "exited" ELSE "listening"
                        /\ encryptionService' = TRUE
                        /\ SetSession(r.c)
                        /\ Record(Op("startServer", [db |-> TRUE], r))
                 ELSE /\ server' = "listening"
                      /\ Record(Op("startServer", [db |-> TRUE],
                                   Returned(Session, UNDEF, <<>>)))
                      /\ UNCHANGED <<accessToken, tokenExpiry, demoMode,
                                     encryptionService>>
    /\ UNCHANGED <<cfg, now, hsm, ticks, calls>>

StartServer ==
    /\ server = "starting"
    /\ \E dbOk \in BOOLEAN :
         IF ~dbOk
         THEN \* initializeDatabase rejects: process.exit(1)
              /\ server' = "exited"
              /\ Record(Op("startServer", [db |-> FALSE], Threw(Session, <<>>)))
              /\ UNCHANGED <<accessToken, tokenExpiry, demoMode,
                             encryptionService, citizens, requests>>
         ELSE /\ citizens' = IF citizens = <<>> THEN SeedCitizens ELSE citizens
              /\ requests' = IF citizens = <<>> THEN SeedRequests ELSE requests
              /\ server' = "listening"
              /\ IF Configured
                 THEN \E r \in {initialize(Session, World(TRUE))} :
                        /\ encryptionService' = TRUE
                        /\ SetSession(r.c)
                        /\ Record(Op("startServer", [db |-> TRUE], r))
                 ELSE /\ Record(Op("startServer", [db |-> TRUE],
                                   Returned(Session, UNDEF, <<>>)))
                      /\ UNCHANGED <<accessToken, tokenExpiry, demoMode,
                                     encryptionService>>
    /\ UNCHANGED <<cfg, now, hsm, ticks, calls>>

CitizenCreate ==
    /\ server = "listening"
    /\ Len(citizens) < Len(SeedCitizens) + MaxRows
    /\ \E data \in NewCitizens :
         \E fail \in FailPoints(Calls(data, CitizenSensitive)) :
           \E r \in {citizenCreate(Session, CodecWorld(fail), data)} :
             Commit(DbOp("citizen.create", NULL, data, r), r)
    /\ ServerFrame

CitizenUpdate ==
    /\ server = "listening"
    /\ \E id \in 1..(Len(SeedCitizens) + MaxRows), data \in CitizenUpdates :
         \E fail \in FailPoints(Calls(data, CitizenSensitive)),
            fail2 \in {{}, {1}} :
           (fail # {} => fail2 = {}) /\
           \E r \in {citizenUpdate(Session, CodecWorld(fail),
                                    CodecWorld(fail2), id, data)} :
             Commit(DbOp("citizen.update", id, data, r), r)
    /\ ServerFrame

CitizenGetById ==
    /\ server = "listening"
    /\ \E id \in 1..(Len(SeedCitizens) + MaxRows), fail \in {{}, {1}} :
         \E r \in {citizenGetById(Session, CodecWorld(fail), citizens, id)} :
           Commit(DbOp("citizen.getById", id, NULL, r), r)
    /\ ServerFrame

CitizenGetByCitizenId ==
    /\ server = "listening"
    /\ \E citizenId \in {SeedCitizenId, NewCitizenId}, fail \in {{}, {1}} :
         \E r \in {citizenGetByCitizenId(Session, CodecWorld(fail), citizens,
                                         citizenId)} :
           Commit(DbOp("citizen.getByCitizenId", NULL, citizenId, r), r)
    /\ ServerFrame

CitizenGetAll ==
    /\ server = "listening"
    /\ \E fail \in {{}, {1}}, rows \in SUBSET (1..Len(citizens)) :
         (fail = {} => rows = {}) /\
         \E r \in {citizenGetAll(Session, ListWorld(fail, rows), citizens)} :
           Commit(DbOp("citizen.getAll", NULL, NULL, r), r)
    /\ ServerFrame

RequestGetAll ==
    /\ server = "listening"
    /\ \E fail \in {{}, {1}}, rows \in SUBSET (1..Len(requests)) :
         (fail = {} => rows = {}) /\
         \E r \in {requestGetAll(Session, ListWorld(fail, rows), requests,
                                  citizens)} :
           Commit(DbOp("request.getAll", NULL, NULL, r), r)
    /\ ServerFrame

RequestCreate ==
    /\ server = "listening"
    /\ Len(requests) < Len(SeedRequests) + MaxRows
    /\ \E data \in NewRequests :
         \E fail \in FailPoints(Calls(data, RequestSensitive)) :
           \E r \in {requestCreate(Session, CodecWorld(fail), data)} :
             Commit(DbOp("request.create", NULL, data, r), r)
    /\ ServerFrame

\* The environment the server starts in.
ServerConfigs ==
    {Config("api_key", ApiKey(36, FALSE, FALSE), FALSE, TRUE, TRUE),
     Config("api_key", ApiKey(17, FALSE, TRUE), FALSE, TRUE, TRUE),
     Config("trusted_ca", ApiKey(36, FALSE, FALSE), FALSE, TRUE, TRUE),
     Config("api_key", ApiKey(36, FALSE, FALSE), FALSE, TRUE, FALSE),
     Config("api_key", UNDEF, FALSE, FALSE, FALSE)}

\* The HSM becomes unreachable, or reachable again.
HsmOutage ==
    /\ hsm' = [hsm EXCEPT !.up = ~hsm.up]
    /\ UNCHANGED <<cfg, accessToken, tokenExpiry, demoMode, now, server,
                   encryptionService, citizens, requests, last, prev, ticks,
                   calls>>

Init ==
    /\ cfg \in ServerConfigs
    /\ accessToken = NULL
    /\ tokenExpiry = NULL
    /\ demoMode = FALSE
    /\ now = 0
    /\ hsm \in {h \in HsmStates : h.ein * 1000 > SafetyMarginMs}
    /\ server = "starting"
    /\ encryptionService = FALSE
    /\ citizens = <<>>
    /\ requests = <<>>
    /\ last = NoOp
    /\ prev = NoOp
    /\ ticks = 0
    /\ calls = <<>>

Next ==
    \/ StartServer
    \/ HsmOutage
    \/ CitizenCreate
    \/ CitizenUpdate
    \/ CitizenGetById
    \/ CitizenGetByCitizenId
    \/ CitizenGetAll
    \/ RequestCreate
    \/ RequestGetAll

Spec == Init /\ [][Next]_vars


(***************************************************************************)
(* SpecConc: in-flight callers of ensureAuthenticated().  A caller runs    *)
(* from its start to its first await without interruption; the only await  *)
(* on the way is the session-auth POST of authenticate().  calls[p] is the *)
(* position of caller p: idle, auth_wait (POST sent, response pending),    *)
(* done.                                                                   *)
(***************************************************************************)
Callers == 1..NumCallers

\* authenticate() reaches its POST: certificates are readable, or the key
\* is an application's key.
SendsAuthPost ==
    IF cfg.authMethod = "trusted_ca" THEN cfg.certs
    ELSE cfg.apiKey # UNDEF /\ ~LooksDemo(cfg.apiKey)

At(p, pc, threw) == calls' = [calls EXCEPT ![p] = [pc |-> pc, threw |-> threw]]

ConcFrame == UNCHANGED <<cfg, now, hsm, server, encryptionService, citizens,
                         requests, last, prev, ticks>>

\* ensureAuthenticated() up to its first await
BeginEnsure(p) ==
    /\ calls[p].pc = "idle"
    /\ IF ~NeedsAuth(Session, World(TRUE))
       THEN At(p, "done", FALSE) /\ UNCHANGED <<accessToken, tokenExpiry, demoMode>>
       ELSE IF SendsAuthPost
       THEN At(p, "auth_wait", FALSE)
            /\ UNCHANGED <<accessToken, tokenExpiry, demoMode>>
       ELSE LET a == authenticate(Session, World(TRUE)) IN
              SetSession(a.c) /\ At(p, "done", a.threw)
    /\ ConcFrame

\* the POST of caller p is answered or fails; authenticate() runs to its end
AuthResponse(p) ==
    /\ calls[p].pc = "auth_wait"
    /\ LET a == authenticate(Session, World(TRUE)) IN
         SetSession(a.c) /\ At(p, "done", a.threw)
    /\ ConcFrame

\* encryptData / decryptData after `await this.ensureAuthenticated()` has
\* returned: in demo mode encryptData returns at once, otherwise the request
\* is posted with axios.post, which is given no timeout, and awaited.
SendCrypto(p) ==
    /\ calls[p].pc = "done" /\ ~calls[p].threw
    /\ IF demoMode THEN At(p, "returned", FALSE)
       ELSE At(p, "crypto_wait", FALSE)
    /\ UNCHANGED <<accessToken, tokenExpiry, demoMode>>
    /\ ConcFrame

\* the crypto POST of caller p is answered or fails; the call returns or
\* throws 'Failed to encrypt/decrypt data'
CryptoResponse(p) ==
    /\ calls[p].pc = "crypto_wait"
    /\ At(p, "returned", ~HsmAnswers(Session, World(TRUE)))
    /\ UNCHANGED <<accessToken, tokenExpiry, demoMode>>
    /\ ConcFrame

\* the caller's request ends; the next one may begin
EndEnsure(p) ==
    /\ calls[p].pc \in {"done", "returned"}
    /\ At(p, "idle", FALSE)
    /\ UNCHANGED <<accessToken, tokenExpiry, demoMode>>
    /\ ConcFrame

InitConc ==
    /\ cfg \in CodecConfigs
    /\ accessToken = NULL
    /\ tokenExpiry = NULL
    /\ demoMode = FALSE
    /\ now = 0
    /\ hsm \in HsmStates
    /\ server = "none"
    /\ encryptionService = TRUE
    /\ citizens = <<>>
    /\ requests = <<>>
    /\ last = NoOp
    /\ prev = NoOp
    /\ ticks = 0
    /\ calls = [p \in Callers |-> [pc |-> "idle", threw |-> FALSE]]

NextConc ==
    \/ Tick
    \/ HsmChange
    \/ \E p \in Callers : BeginEnsure(p)
    \/ \E p \in Callers : AuthResponse(p)
    \/ \E p \in Callers : SendCrypto(p)
    \/ \E p \in Callers : CryptoResponse(p)
    \/ \E p \in Callers : EndEnsure(p)

SpecConc == InitConc /\ [][NextConc]_vars

\* SpecLive: the same callers, with the fairness the event loop gives: a
\* call whose awaited promise has settled runs on to its end.  Whether and
\* when the HSM answers a request is up to the HSM: no fairness is assumed
\* for AuthResponse and CryptoResponse, and the code arms no timer.
SpecLive ==
    /\ InitConc
    /\ [][NextConc]_vars
    /\ \A p \in Callers : WF_vars(EndEnsure(p))


(***************************************************************************)
(* Properties of the HSM client (SpecClient).                              *)
(***************************************************************************)
Events(log, ev) == {i \in DOMAIN log : log[i].ev = ev}
\* authenticate() invocations and session-auth requests of an operation
Auths(o) == Cardinality(Events(o.log, "authenticate"))
AuthPosts(o) == Cardinality(Events(o.log, "auth_post"))

\* `last` decrypted, without throwing, what encryptData returned for prev.arg.
RoundTrip ==
    /\ prev.op = "encryptData" /\ last.op = "decryptData"
    /\ ~last.threw

\* encryptData returned for a non-empty argument while the client is in
\* real mode.
RealEncrypted ==
    /\ last.op = "encryptData" /\ ~last.threw /\ Truthy(last.arg)
    /\ ~demoMode

EnvelopeOf(o) ==
    /\ IsEnvelope(o.ret)
    /\ JsonParse(o.ret).cipher # o.arg
    /\ JsonParse(o.ret).iv # o.arg

\* C4 as stated: in real mode encryptData(s) returns an envelope {cipher, iv},
\* both non-empty and different from s, and decryptData of it returns
\* exactly s, for every non-empty string s.
C4_RealRoundTripAnyString ==
    /\ RealEncrypted => EnvelopeOf(last)
    /\ RoundTrip /\ ~demoMode => last.ret = prev.arg

\* C4 amended: the same for every non-empty s that is well-formed UTF-16 (no
\* unpaired surrogate); an unpaired surrogate comes back as U+FFFD.
C4_RealRoundTrip ==
    /\ RealEncrypted => EnvelopeOf(last)
    /\ RoundTrip /\ ~demoMode =>
         /\ last.ret = WellFormed(prev.arg)
         /\ WellFormed(prev.arg) = prev.arg => last.ret = prev.arg

C4_Witness ==
    /\ RoundTrip /\ ~demoMode
    /\ prev.arg = Str(<<65>>) /\ last.ret = Str(<<65>>)
    /\ IsEnvelope(last.arg)

\* C5: in demo mode decryptData(encryptData(s)) = s for every non-empty s.
C5_DemoRoundTrip ==
    RoundTrip /\ demoMode => last.ret = prev.arg

\* C6: decryptData(s) returns s and raises no error for every non-empty s
\* that is no {cipher, iv} envelope, in every session state.
C6_LegacyPassThrough ==
    last.op = "decryptData" /\ Truthy(last.arg) /\ ~IsEnvelope(last.arg)
        => ~last.threw /\ last.ret = last.arg

\* Two ensureAuthenticated() calls in a row, the first on a session without
\* a token.
TwoEnsures ==
    /\ prev.op = "ensureAuthenticated" /\ last.op = "ensureAuthenticated"
    /\ prev.fresh

\* C8 as stated: from a session with no token, two consecutive
\* ensureAuthenticated() calls trigger exactly one authentication exchange.
C8_TwoCallsOneExchange ==
    TwoEnsures => AuthPosts(prev) + AuthPosts(last) = 1

\* A step that is a call of one of the operations ops: neither the clock
\* nor the HSM moves, and the operation recorded is one of them.
CallOf(ops) == now' = now /\ hsm' = hsm /\ last'.op \in ops

\* ensureAuthenticated() invokes authenticate() exactly when the session has
\* no token or the clock has reached tokenExpiry - 60 s; otherwise it returns
\* the cached token and leaves the session alone.
EnsureRule ==
    CallOf({"ensureAuthenticated"}) =>
        IF accessToken = NULL \/ now >= tokenExpiry - 60000
        THEN Auths(last') = 1
        ELSE /\ Auths(last') = 0 /\ AuthPosts(last') = 0
             /\ last'.ret = accessToken /\ ~last'.threw
             /\ accessToken' = accessToken /\ tokenExpiry' = tokenExpiry

\* C8 amended: two consecutive calls invoke authenticate() exactly once (at
\* most one exchange, exactly one in real mode) when the first succeeds and
\* the second comes before tokenExpiry - 60 s of the session the first left;
\* and ensureAuthenticated() follows EnsureRule.
C8_SessionReuse ==
    /\ [](TwoEnsures /\ ~prev.threw /\ last.at < prev.expiry - 60000 =>
            /\ Auths(prev) + Auths(last) = 1
            /\ AuthPosts(prev) + AuthPosts(last) = (IF demoMode THEN 0 ELSE 1))
    /\ [][EnsureRule]_vars

C8_Witness ==
    /\ TwoEnsures /\ ~prev.threw /\ last.at < prev.expiry - 60000
    /\ ~demoMode /\ AuthPosts(prev) = 1 /\ AuthPosts(last) = 0
    /\ last.ret = accessToken

CryptoPosts(o) == {o.log[i] : i \in Events(o.log, "crypto_post")}

\* C9 as stated: no encrypt/decrypt request is sent with a null token or
\* with a token within 60 s of its expiry, whatever expires_in was granted.
C9_NeverWithinMargin ==
    last.op \in {"encryptData", "decryptData"} =>
        \A q \in CryptoPosts(last) :
            q.token # NULL /\ q.at < q.expiry - 60000

\* The lifetime a token was granted, in ms.
GrantedMs(token) ==
    IF token.k = "tok" THEN token.ein * 1000 ELSE DemoExpiryMs

\* A request is sent only after the check and carries the session's token;
\* when the check fails, authenticate() completes first (in real mode with
\* one successful exchange).
CheckedBeforeSend ==
    CallOf({"encryptData", "decryptData"}) /\ CryptoPosts(last') # {} =>
        LET q == last'.log[Len(last'.log)] IN
        /\ q.token = accessToken' /\ q.expiry = tokenExpiry'
        /\ IF accessToken = NULL \/ now >= tokenExpiry - 60000
           THEN /\ last'.log[1] = EvAuthenticate
                /\ demoMode' \/ last'.log[2] = EvAuthPost(TRUE)
                /\ tokenExpiry' = now + GrantedMs(accessToken')
           ELSE /\ Len(last'.log) = 1
                /\ accessToken' = accessToken /\ tokenExpiry' = tokenExpiry

\* C9 amended: the request is never sent with a null token; it carries the
\* session's token, fresh when the check failed; and that token is outside
\* the 60 s margin whenever it was granted more than 60 s.
C9_CheckedToken ==
    /\ [](last.op \in {"encryptData", "decryptData"} =>
            \A q \in CryptoPosts(last) :
                /\ q.token # NULL
                /\ GrantedMs(q.token) > 60000 => q.at < q.expiry - 60000)
    /\ [][CheckedBeforeSend]_vars

C9_Witness ==
    /\ last.op = "encryptData" /\ ~last.fresh /\ ~last.threw
    /\ Len(last.log) = 3
    /\ \E q \in CryptoPosts(last) : q.at > 0 /\ q.token.iat = q.at /\ q.token.ein = 600

(***************************************************************************)
(* Properties of the codec (SpecCodec).                                    *)
(***************************************************************************)
FromStorageOps == {"decryptCitizenData", "decryptServiceRequestData"}
ToStorageOps == {"encryptCitizenData", "encryptServiceRequestData"}

\* The fields whose decryptData call threw during operation o.
CaughtFields(o) == {o.log[i].field : i \in Events(o.log, "caught")}

\* The fallback labels as documented.
DocumentedLabel ==
    [firstName |-> "[Encrypted]", lastName |-> "[Data]",
     email |-> "[Encrypted Email]", phone |-> "[Encrypted Phone]",
     address |-> "[Encrypted Address]", zipCode |-> "[Protected]",
     dateOfBirth |-> "[Protected DOB]", notes |-> "[Encrypted Notes]",
     applicationData |-> "[Encrypted Application Data]"]

\* C3: fromStorage never throws, and for every sensitive field whose stored
\* value is present and whose decryptData call throws, the output holds the
\* field's fallback label under the field and has no `{field}_encrypted` key.
C3_ReadTotality ==
    last.op \in FromStorageOps =>
        /\ ~last.threw
        /\ \A f \in CaughtFields(last) :
             /\ f \in DOMAIN last.ret
             /\ last.ret[f] = [k |-> "label", text |-> DocumentedLabel[f]]
             /\ EncKey(f) \notin DOMAIN last.ret

C3_Witness ==
    /\ last.op = "decryptCitizenData"
    /\ CaughtFields(last) = {"firstName", "lastName", "email"}
    /\ \A f \in CaughtFields(last) : Truthy(last.arg[EncKey(f)])
    /\ last.ret["firstName"].text = "[Encrypted]"
    /\ last.ret["lastName"].text = "[Data]"
    /\ last.ret["email"].text = "[Encrypted Email]"
    /\ "email_encrypted" \notin DOMAIN last.ret

SensitiveOf(o) ==
    IF o.op \in {"encryptCitizenData", "decryptCitizenData"}
    THEN Range(CitizenSensitive) ELSE Range(RequestSensitive)
PublicOf(o) ==
    IF o.op \in {"encryptCitizenData", "decryptCitizenData"}
    THEN CitizenPublic ELSE RequestPublic

\* C10: every key of the record toStorage returns is a public field carried
\* over unchanged or a `{name}_encrypted` key, and no sensitive field name is
\* a key of it.
C10_FieldPartition ==
    last.op \in ToStorageOps /\ ~last.threw =>
        /\ \A key \in DOMAIN last.ret :
             \/ key \in PublicOf(last) /\ key \in DOMAIN last.arg
                  /\ last.ret[key] = last.arg[key]
             \/ \E f \in SensitiveOf(last) : key = EncKey(f)
        /\ \A f \in SensitiveOf(last) : f \notin DOMAIN last.ret

(***************************************************************************)
(* Properties of the storage operations (Spec).                            *)
(***************************************************************************)
WriteOps == {"citizen.create", "citizen.update", "request.create"}
WriteSql == {"INSERT citizens", "UPDATE citizens", "INSERT service_requests"}

SensitiveIn(o) ==
    IF o.op = "request.create" THEN Range(RequestSensitive)
    ELSE Range(CitizenSensitive)

\* v is what encryptData makes of plaintext p: an envelope whose cipher the
\* HSM derived from p, or the demo encoding of p.
EncryptedFrom(v, p) ==
    \/ /\ IsEnvelope(v) /\ v.cipher.k = "ct"
       /\ v.cipher.of = Base64Encode(Utf8Encode(p))
    \/ \E t \in {now} : v = Base64Encode(Utf8Encode(DemoTemplate(p, [now |-> t])))

\* v is a value encryptData produces.
IsCiphertext(v) ==
    \/ IsEnvelope(v) /\ v.cipher.k = "ct"
    \/ v.k = "b64"

\* C1: every value a create or update writes to an `_encrypted` column is
\* null or the output of encryptData for that field's value, never the
\* plaintext itself; so the tables hold, besides the seeded rows' values,
\* only nulls and ciphertexts in those columns.
C1_NoPlaintextStored ==
    /\ last.op \in WriteOps =>
         \A i \in DOMAIN last.stmts :
           last.stmts[i].sql \in WriteSql =>
             \A f \in SensitiveIn(last) :
               LET v == last.stmts[i].params[EncKey(f)]
                   p == Get(last.arg, f)
               IN v = NULL \/ (Truthy(p) /\ v # p /\ EncryptedFrom(v, p))
    /\ \A i \in DOMAIN citizens : \A f \in Range(CitizenSensitive) :
         LET v == citizens[i][EncKey(f)] IN
           \/ v = NULL
           \/ IsCiphertext(v)
           \/ i <= Len(SeedCitizens) /\ v = SeedCitizens[i][EncKey(f)]
    /\ \A i \in DOMAIN requests : \A f \in Range(RequestSensitive) :
         LET v == requests[i][EncKey(f)] IN
           \/ v = NULL
           \/ IsCiphertext(v)
           \/ i <= Len(SeedRequests) /\ v = SeedRequests[i][EncKey(f)]

C1_Witness ==
    /\ last.op = "citizen.update" /\ ~last.threw /\ last.id = 1
    /\ last.arg["firstName"] = FieldText
    /\ last.arg["zipCode"] = EmptyStr
    /\ IsEnvelope(citizens[1]["firstName_encrypted"])
    /\ citizens[1]["zipCode_encrypted"] = NULL
    /\ Len(citizens) > Len(SeedCitizens)
    /\ IsEnvelope(citizens[2]["email_encrypted"])

\* An encryptData call of operation o threw.
EncryptFailed(o) == Events(o.log, "encrypt_failed") # {}

\* C2: if an encryptData call made while encrypting the fields of one
\* entity throws, the operation throws, issues no database statement, and
\* leaves the tables as they were.
C2_AllOrNothing ==
    [][(last'.op \in WriteOps /\ EncryptFailed(last')) =>
          /\ last'.threw
          /\ last'.stmts = <<>>
          /\ citizens' = citizens
          /\ requests' = requests]_vars

\* A create whose fourth encryptData call failed after three succeeded.
C2_Witness ==
    /\ last.op = "citizen.create" /\ last.threw
    /\ \E i \in Events(last.log, "encrypt_failed") : last.log[i].field = "phone"
    /\ Cardinality({i \in Events(last.log, "crypto_post") : last.log[i].ok}) = 3
    /\ last.stmts = <<>>
    /\ citizens = SeedCitizens

(***************************************************************************)
(* Properties of concurrent callers (SpecConc).                            *)
(***************************************************************************)
Exchanging == {p \in DOMAIN calls : calls[p].pc = "auth_wait"}

\* C7: when several in-flight callers of ensureAuthenticated() find no
\* token or an expired one, only one authentication exchange is performed:
\* at most one caller has a session-auth request in flight.
C7_OneExchangeInFlight == Cardinality(Exchanging) <= 1

\* C11: fromStorage removes every `_encrypted` key and never omits the
\* plaintext key: for every sensitive field whose `{field}_encrypted` key is
\* in the input record, whatever its value, the output has the key `field`
\* and has no `{field}_encrypted` key.
C11_EncryptedKeysRemoved ==
    last.op \in FromStorageOps /\ ~last.threw /\ last.arg # NULL =>
        \A f \in SensitiveOf(last) :
            EncKey(f) \in DOMAIN last.arg =>
                f \in DOMAIN last.ret /\ EncKey(f) \notin DOMAIN last.ret

(***************************************************************************)
(* Claims about the client's modes and its self-checks.                    *)
(***************************************************************************)
ClientOps ==
    {"authenticate", "ensureAuthenticated", "encryptData", "decryptData",
     "healthCheck"}

\* The requests operation o sent over the network.
NetworkCalls(o) ==
    {i \in DOMAIN o.log : o.log[i].ev \in {"auth_post", "crypto_post"}}

\* C12: once the client is in demo mode, no operation (authenticate,
\* ensureAuthenticated, encryptData, decryptData, healthCheck) performs a
\* network call, whatever its input.
C12_DemoIsolation ==
    [][demoMode /\ CallOf(ClientOps) => NetworkCalls(last') = {}]_vars

\* The session authenticate() leaves in demo mode, reached with no request.
DemoOutcome ==
    /\ ~last.threw /\ NetworkCalls(last) = {}
    /\ accessToken = DemoToken /\ last.ret = DemoToken
    /\ tokenExpiry = last.at + DemoExpiryMs
    /\ demoMode

\* C13: with authMethod api_key, if the configured API key is empty (unset
\* or ''), shorter than 10 characters, or contains 'your-' or
\* 'fff-ff-ff-ff-ff-f', authenticate() completes without any network call,
\* sets the token 'demo-access-token' with an expiry one hour ahead and sets
\* demoMode; for any other key it performs exactly one POST to session/auth.
C13_DemoDetection ==
    last.op = "authenticate" /\ cfg.authMethod = "api_key" =>
        IF cfg.apiKey = UNDEF THEN DemoOutcome
        ELSE IF \/ cfg.apiKey.len < MinKeyLen
                \/ cfg.apiKey.your \/ cfg.apiKey.fff
        THEN DemoOutcome
        ELSE AuthPosts(last) = 1 /\ Cardinality(NetworkCalls(last)) = 1

\* C14: encryptData and decryptData return null for null, undefined and the
\* empty string, and then perform no authentication exchange, send no crypto
\* request and leave the session (token, expiry, demoMode) unchanged.
C14_EmptyInputNoOp ==
    [][CallOf({"encryptData", "decryptData"})
         /\ last'.arg \in {NULL, UNDEF, EmptyStr}
       => /\ ~last'.threw /\ last'.ret = NULL
          /\ Auths(last') = 0 /\ NetworkCalls(last') = {}
          /\ accessToken' = accessToken
          /\ tokenExpiry' = tokenExpiry
          /\ demoMode' = demoMode]_vars

\* decryptData('') on a client that has no session yet: it returned null and
\* there is still no session.
C14_Witness ==
    /\ last.op = "decryptData" /\ last.arg = EmptyStr /\ last.ret = NULL
    /\ last.fresh /\ accessToken = NULL /\ hsm.up
    /\ cfg.authMethod = "api_key" /\ cfg.apiKey # UNDEF

\* The credentials authenticate() needs are there: the API key, or the
\* certificate files of the enclave.
CredentialsPresent ==
    IF cfg.authMethod = "trusted_ca" THEN cfg.certs ELSE cfg.apiKey # UNDEF

\* Every request operation o sent was answered.
StepsSucceeded(o) ==
    \A i \in NetworkCalls(o) : o.log[i].ok

\* C15: initialize() performs exactly one authentication exchange followed
\* by one encrypt and one decrypt of the test string, and it throws if and
\* only if one of these steps fails; when authentication succeeds and the
\* HSM (or the demo simulation) answers, it completes without error, in real
\* mode and in demo mode alike.
C15_InitializeSelfTest ==
    last.op = "initialize" =>
        /\ Auths(last) = 1
        /\ last.threw <=> ~(CredentialsPresent /\ StepsSucceeded(last))

\* ensureAuthenticated() would succeed on session c: the token is cached and
\* valid, or authenticate() obtains a new one.
EnsureSucceeds(c, e) ==
    \/ c.accessToken # NULL /\ e.now < c.tokenExpiry - SafetyMarginMs
    \/ IF cfg.authMethod = "trusted_ca" THEN cfg.certs /\ e.up
       ELSE /\ cfg.apiKey # UNDEF
            /\ \/ cfg.apiKey.len < MinKeyLen \/ cfg.apiKey.your
               \/ cfg.apiKey.fff \/ e.up

\* C16: healthCheck() never throws; it returns status 'healthy' exactly when
\* ensureAuthenticated() succeeds (a cached valid token, or a successful
\* re-authentication) and status 'unhealthy' with the error message when
\* authentication fails, in every session state and auth method.
C16_HealthCheckTotal ==
    [][CallOf({"healthCheck"}) =>
         /\ ~last'.threw
         /\ IF EnsureSucceeds(Session, World(TRUE))
            THEN /\ last'.ret.status = "healthy"
                 /\ last'.ret.authenticated
                 /\ accessToken' # NULL
            ELSE /\ last'.ret.status = "unhealthy"
                 /\ last'.ret.error.k = "text"
                 /\ accessToken' = accessToken
                 /\ tokenExpiry' = tokenExpiry]_vars

\* healthCheck() with the HSM unreachable and the cached token within the
\* margin: it answered 'unhealthy'.
C16_Witness ==
    /\ last.op = "healthCheck" /\ ~last.threw
    /\ last.ret.status = "unhealthy"
    /\ last.ret.error = Text("Request failed")
    /\ ~last.fresh /\ accessToken # NULL

(***************************************************************************)
(* Claims about the server's configuration (Spec).                         *)
(***************************************************************************)
\* Which of FORTANIX_DSM_ENDPOINT, FORTANIX_API_KEY, FORTANIX_KEY_ID are set.
SetVariables ==
    {v \in {"endpoint", "apiKey", "keyId"} :
        IF v = "apiKey" THEN cfg.apiKey # UNDEF /\ cfg.apiKey.len > 0
        ELSE cfg[v]}

DataOps == {"citizen.create", "citizen.getById", "request.create"}

\* A statement of operation o that the database rejected.
Rejected(o) == {i \in DOMAIN o.stmts : ~o.stmts[i].ok}

\* C17: when none of FORTANIX_DSM_ENDPOINT, FORTANIX_API_KEY and
\* FORTANIX_KEY_ID is set, startup completes without encryption, and the
\* citizen and service-request create and read operations that follow
\* succeed (a create fails only when the database rejects its row), store
\* and return the field values in plaintext and do not contact the HSM.
C17_RunsWithoutEncryption ==
    SetVariables = {} =>
        /\ last.op = "startServer" /\ ~last.threw =>
               server = "listening" /\ ~encryptionService
        /\ last.op \in DataOps =>
               /\ NetworkCalls(last) = {}
               /\ last.threw => Rejected(last) # {}
        /\ last.op = "citizen.getById" /\ last.id \in DOMAIN citizens =>
               \A f \in Range(CitizenSensitive) :
                   last.ret[f] = citizens[last.id][EncKey(f)]

\* C18: when some but not all of FORTANIX_DSM_ENDPOINT, FORTANIX_API_KEY and
\* FORTANIX_KEY_ID are set, startup fails with a configuration error instead
\* of continuing without encryption; only the fully unconfigured server
\* continues in no-encryption mode.
C18_PartialConfigFails ==
    last.op = "startServer" =>
        /\ Cardinality(SetVariables) \in {1, 2} =>
               last.threw /\ server = "exited"
        /\ server = "listening" /\ ~encryptionService => SetVariables = {}

(***************************************************************************)
(* Claims about the read path (Spec).                                      *)
(***************************************************************************)
ReadOps == {"citizen.getAll", "citizen.getById", "citizen.getByCitizenId"}

\* The values operation o returned for the sensitive fields of a citizen.
ReturnedValues(o) ==
    LET rows == IF o.threw THEN {}
                ELSE IF o.op = "citizen.getAll" THEN Range(o.ret)
                ELSE IF o.ret = NULL THEN {}
                ELSE {o.ret}
    IN {Get(row, f) : row \in rows, f \in Range(CitizenSensitive)}

Labels == {Label(CitizenFallback, f) : f \in Range(CitizenSensitive)}

\* The values the tables hold in their `_encrypted` columns.
StoredValues(cs, rs) ==
    {cs[i][EncKey(f)] : i \in DOMAIN cs, f \in Range(CitizenSensitive)}
        \cup {rs[i][EncKey(f)] : i \in DOMAIN rs, f \in Range(RequestSensitive)}

\* C19: read operations do not write: a getAll / getById / getByCitizenId
\* call, also one in which decryption fails and fallback labels are
\* returned, issues only SELECT statements and leaves every stored record
\* identical to its value before the call; a fallback label appears only in
\* the returned object, never in a table.
C19_ReadsDoNotWrite ==
    [][CallOf(ReadOps) =>
         /\ citizens' = citizens
         /\ requests' = requests
         /\ \A i \in DOMAIN last'.stmts : last'.stmts[i].sql = "SELECT citizens"
         /\ StoredValues(citizens', requests') \cap Labels = {}]_vars

\* getAll while the HSM does not answer: an envelope is stored in a row, the
\* call returned a fallback label, and the row still holds the envelope.
C19_Witness ==
    /\ last.op = "citizen.getAll" /\ ~last.threw
    /\ ReturnedValues(last) \cap Labels # {}
    /\ \E v \in StoredValues(citizens, requests) :
           IsEnvelope(v) /\ v.cipher.k = "ct"

(***************************************************************************)
(* Claims about the analytics (SpecCodec).                                 *)
(***************************************************************************)
RECURSIVE SumOf(_, _)
\* The sum of the counts under the given keys.
SumOf(counts, keys) ==
    IF keys = {} THEN 0
    ELSE LET key == CHOOSE x \in keys : TRUE
         IN counts[key].n + SumOf(counts, keys \ {key})

\* Every value of the table is a number and they add up to total.
SumsTo(counts, total) ==
    /\ \A key \in DOMAIN counts : counts[key].k = "num"
    /\ SumOf(counts, DOMAIN counts) = total

\* C20: getCitizenAnalytics performs no authentication exchange and no
\* decrypt call, leaves the session unchanged, and returns counts whose
\* per-city, per-state, per-status and per-month totals each sum to
\* totalCitizens, whatever the HSM's state.
C20_AnalyticsTotals ==
    [][CallOf({"getCitizenAnalytics"}) =>
         /\ ~last'.threw
         /\ Auths(last') = 0 /\ NetworkCalls(last') = {}
         /\ accessToken' = accessToken
         /\ tokenExpiry' = tokenExpiry
         /\ demoMode' = demoMode
         /\ last'.ret.totalCitizens = Len(last'.arg)
         /\ SumsTo(last'.ret.citiesCounts, Len(last'.arg))
         /\ SumsTo(last'.ret.statesCounts, Len(last'.arg))
         /\ SumsTo(last'.ret.statusCounts, Len(last'.arg))
         /\ SumsTo(last'.ret.monthlyRegistrations, Len(last'.arg))]_vars

(***************************************************************************)
(* Claims about calls in flight (SpecLive, SpecConc).                      *)
(***************************************************************************)
\* Caller p awaits the HSM's answer to a request.
Pending(p) == calls[p].pc \in {"auth_wait", "crypto_wait"}

\* C21: every encryptData / decryptData call eventually completes: a call
\* that awaits the HSM's answer to its authentication or crypto request
\* ends, by returning or by throwing, also when the HSM never answers.
C21_CallsComplete ==
    \A p \in Callers : Pending(p) ~> ~Pending(p)

(***************************************************************************)
(* Further claims about the client's session (SpecClient).                 *)
(***************************************************************************)
\* C22: with authMethod trusted_ca, if a certificate file is missing,
\* authenticate() throws the error naming the missing paths before any
\* network request is made, leaves token, expiry and demoMode unchanged and
\* does not fall back to demo mode.
C22_TrustedCaFailFast ==
    [][CallOf({"authenticate", "healthCheck"})
         /\ cfg.authMethod = "trusted_ca" /\ ~cfg.certs
       => /\ NetworkCalls(last') = {}
          /\ IF last'.op = "authenticate" THEN last'.threw
             ELSE last'.ret.error = Text("Certificate files not found")
          /\ accessToken' = accessToken
          /\ tokenExpiry' = tokenExpiry
          /\ demoMode' = demoMode /\ ~demoMode']_vars

\* authenticate() without the certificate files while the HSM is reachable:
\* it threw, and there is still no session.
C22_Witness ==
    /\ last.op = "authenticate" /\ last.threw
    /\ cfg.authMethod = "trusted_ca" /\ ~cfg.certs
    /\ hsm.up /\ accessToken = NULL /\ ~demoMode

\* C23: with authMethod trusted_ca every encrypt and decrypt request sent
\* to the HSM carries the bearer token of the current session and the mTLS
\* client certificate; with authMethod api_key it carries the bearer token
\* and no client certificate.
C23_DualCredentials ==
    [][CallOf({"encryptData", "decryptData"}) =>
         \A ev \in CryptoPosts(last') :
             /\ ev.token # NULL /\ ev.token = accessToken'
             /\ ev.cert <=> cfg.authMethod = "trusted_ca"]_vars

\* decryptData of an envelope over trusted_ca: the HSM answered a request
\* that carried the session's token and the certificate.
C23_Witness ==
    /\ last.op = "decryptData" /\ ~last.threw
    /\ cfg.authMethod = "trusted_ca"
    /\ \E ev \in CryptoPosts(last) :
           ev.ok /\ ev.cert /\ ev.token = accessToken /\ ev.token.k = "tok"

\* C24: demo mode is sticky: once authenticate() has put the client in demo
\* mode, demoMode stays true through every later operation, the renewal of
\* the one-hour demo token included; and a client that holds a token of the
\* HSM never becomes demo.
C24_DemoSticky ==
    [][/\ demoMode => demoMode' /\ accessToken' = DemoToken
       /\ accessToken # NULL /\ ~demoMode => ~demoMode']_vars

\* ensureAuthenticated() on a demo client whose token is within the margin:
\* it authenticated again and the client is still in demo mode.
C24_Witness ==
    /\ last.op = "ensureAuthenticated" /\ ~last.fresh /\ Auths(last) = 1
    /\ demoMode /\ last.at > 0 /\ tokenExpiry = last.at + DemoExpiryMs

(***************************************************************************)
(* Further claims about the server (Spec).                                 *)
(***************************************************************************)
\* C25: a failure of encryption initialization does not abort the process:
\* whenever database initialization succeeds, startServer reaches the state
\* in which the HTTP server is listening, whether initializeEncryption
\* succeeded, threw, or was skipped; only a database failure exits.
C25_StartupSurvivesEncryption ==
    server # "starting" =>
        /\ server \in {"listening", "exited"}
        /\ last.op = "startServer" =>
               (server = "listening" <=> last.arg.db)
        /\ server = "exited" => last.op = "startServer" /\ ~last.arg.db

\* The self-test of initializeEncryption() failed and the server listens.
C25_Witness ==
    /\ last.op = "startServer" /\ last.arg.db /\ last.threw
    /\ encryptionService /\ server = "listening"
    /\ AuthPosts(last) = 1

\* The operation sent a session/auth request and it failed.
AuthFailed(o) ==
    \E i \in DOMAIN o.log : o.log[i].ev = "auth_post" /\ ~o.log[i].ok

\* C26: a failed authentication exchange leaves the session exactly as it
\* was (token, expiry, demoMode) and is not sticky: the failing encrypt or
\* decrypt call throws and sends no crypto request, and the next encrypt or
\* decrypt call authenticates again, so that it succeeds once the HSM is
\* reachable.
C26_FailedAuthNotSticky ==
    /\ [][CallOf({"encryptData", "decryptData"}) /\ AuthFailed(last')
          => /\ last'.threw /\ CryptoPosts(last') = {}
             /\ accessToken' = accessToken
             /\ tokenExpiry' = tokenExpiry
             /\ demoMode' = demoMode]_vars
    /\ [][/\ CallOf({"encryptData", "decryptData"})
          /\ last.op \in {"encryptData", "decryptData"} /\ AuthFailed(last)
          /\ last'.arg \notin {NULL, UNDEF, EmptyStr}
          => /\ Auths(last') = 1
             /\ hsm.up /\ last'.op = "encryptData"
                  /\ (\A ev \in CryptoPosts(last') : ev.ok)
                => ~last'.threw /\ accessToken' # NULL]_vars

\* encryptData succeeded when retried after its authentication exchange had
\* failed: it authenticated again and the HSM answered.
C26_Witness ==
    /\ prev.op = "encryptData" /\ prev.threw /\ AuthFailed(prev)
    /\ last.op = "encryptData" /\ ~last.threw
    /\ AuthPosts(last) = 1 /\ CryptoPosts(last) # {}
    /\ accessToken # NULL /\ ~demoMode

\* Token and expiry come from one authentication: none yet, one demo
\* authentication, or one response of the HSM.
SessionWhole ==
    IF accessToken = NULL THEN tokenExpiry = NULL /\ ~demoMode
    ELSE IF accessToken = DemoToken
    THEN demoMode /\ tokenExpiry - DemoExpiryMs \in 0..now
    ELSE /\ ~demoMode
         /\ tokenExpiry = accessToken.iat + accessToken.ein * 1000

\* Caller p's session/auth request was answered with a new session.
Answered(p) ==
    /\ calls[p].pc = "auth_wait"
    /\ calls'[p].pc = "done" /\ ~calls'[p].threw

\* C27: under any interleaving of concurrent authentication exchanges and
\* encrypt/decrypt calls the session is never torn: accessToken and
\* tokenExpiry always come from the same authentication response (both null
\* at first, both overwritten in one step), a response that arrives
\* overwrites both with its own values, and no other step of a call in
\* flight touches them.
C27_SessionNeverTorn ==
    /\ []SessionWhole
    /\ [][\A p \in Callers :
            /\ Answered(p) =>
                 /\ accessToken' = HsmToken(World(TRUE))
                 /\ tokenExpiry' = now + hsm.ein * 1000
            /\ calls[p].pc \in {"done", "crypto_wait", "returned"}
               /\ calls'[p] # calls[p]
                 => UNCHANGED <<accessToken, tokenExpiry, demoMode>>]_vars

\* A response renewed the session while another caller's exchange and a
\* crypto request were in flight.
C27_Witness ==
    /\ accessToken # NULL /\ accessToken # DemoToken
    /\ accessToken.iat = now /\ now > 0
    /\ \E p, q \in Callers :
           calls[p].pc = "auth_wait" /\ calls[q].pc = "done"

(***************************************************************************)
(* Overwriting on update (Spec).                                           *)
(***************************************************************************)
\* Operation o ran its UPDATE statement and the database accepted it.
Updated(o) ==
    \E k \in DOMAIN o.stmts :
        o.stmts[k].sql = "UPDATE citizens" /\ o.stmts[k].ok

\* C28: encryptedCitizenService.update(id, data) overwrites all seven
\* sensitive columns of the record with that id: the column of every
\* sensitive field that is absent or empty in data (dateOfBirth always is,
\* the PUT route never supplies it) becomes null, whatever it held before,
\* and the column of every supplied non-empty field becomes the output of
\* this call's encryptData for that value; the other records are untouched.
C28_UpdateOverwrites ==
    [][CallOf({"citizen.update"}) /\ Updated(last') =>
         /\ "dateOfBirth" \notin DOMAIN last'.arg
         /\ \A i \in DOMAIN citizens :
              IF citizens[i]["id"] = last'.id
              THEN \A f \in Range(CitizenSensitive) :
                     LET p == Get(last'.arg, f)
                         v == citizens'[i][EncKey(f)]
                     IN IF Truthy(p)
                        THEN EncryptedFrom(v, p) /\ IsCiphertext(v)
                        ELSE v = NULL
              ELSE citizens'[i] = citizens[i]]_vars

\* An update of the seeded record that supplied firstName and lastName only:
\* these two columns hold ciphertexts, and the columns of email and
\* dateOfBirth, which held values before, are null.
C28_Witness ==
    /\ last.op = "citizen.update" /\ Updated(last) /\ last.id = 1
    /\ Truthy(Get(last.arg, "firstName"))
    /\ ~Truthy(Get(last.arg, "email"))
    /\ SeedCitizens[1]["email_encrypted"] # NULL
    /\ SeedCitizens[1]["dateOfBirth_encrypted"] # NULL
    /\ citizens[1]["id"] = 1
    /\ IsCiphertext(citizens[1]["firstName_encrypted"])
    /\ citizens[1]["email_encrypted"] = NULL
    /\ citizens[1]["dateOfBirth_encrypted"] = NULL

(***************************************************************************)
(* The list operations (Spec).                                             *)
(***************************************************************************)
ListOps == {"citizen.getAll", "request.getAll"}

\* The values the field loop can give field f for the stored value v: the
\* plaintext of an envelope, a legacy value as it is, or the field's label.
FieldOutcomes(v, fallbackValues, f) ==
    {Label(fallbackValues, f)}
        \cup (IF ~IsEnvelope(v) THEN {v}
              ELSE IF HsmCanDecrypt(JsonParse(v).cipher, JsonParse(v).iv)
              THEN {Utf8Decode(Base64Decode(JsonParse(v).cipher.of))}
              ELSE {})

\* out is the output record of the stored record row: it has the row's id
\* and public columns, and every sensitive field with a stored value has an
\* outcome of that value.
RecordOf(row, out, fields, fallbackValues, public) ==
    /\ out["id"] = row["id"]
    /\ \A key \in public \cap DOMAIN row :
         key \in DOMAIN out /\ out[key] = row[key]
    /\ \A f \in Range(fields) :
         Truthy(row[EncKey(f)]) =>
             /\ f \in DOMAIN out
             /\ out[f] \in FieldOutcomes(row[EncKey(f)], fallbackValues, f)

\* The call o returned one record per record of table, newest first.
ListsAll(o, table, fields, fallbackValues, public) ==
    /\ ~o.threw
    /\ Len(o.ret) = Len(table)
    /\ \A k \in DOMAIN o.ret :
         RecordOf(table[Len(table) - k + 1], o.ret[k], fields,
                  fallbackValues, public)

\* C29: encryptedCitizenService.getAll and
\* encryptedServiceRequestService.getAll return exactly one output record
\* per stored record, in the order of the stored records, whichever decrypt
\* calls succeed and fail: the call is not rejected, and every output record
\* is made of its own stored record.
C29_OneRecordPerStoredRecord ==
    [][/\ CallOf({"citizen.getAll"}) /\ encryptionService =>
            ListsAll(last', citizens, CitizenSensitive, CitizenFallback,
                     CitizenPublic)
       /\ CallOf({"request.getAll"}) /\ encryptionService =>
            ListsAll(last', requests, RequestSensitive, RequestFallback,
                     RequestPublic)]_vars

\* What the code does: the records of citizens are all listed, and of the
\* requests those that the query's inner joins select.
ListsSelected ==
    [][/\ CallOf({"citizen.getAll"}) /\ encryptionService =>
            ListsAll(last', citizens, CitizenSensitive, CitizenFallback,
                     CitizenPublic)
       /\ CallOf({"request.getAll"}) /\ encryptionService =>
            ListsAll(last', Joined(requests, citizens), RequestSensitive,
                     RequestFallback, RequestPublic)]_vars

\* A list of two citizens in which a decrypt call failed for one record only.
ListWithFailure ==
    /\ last.op = "citizen.getAll" /\ ~last.threw /\ Len(last.ret) = 2
    /\ \E k \in 1..2 :
         /\ \E f \in Range(CitizenSensitive) :
              Get(last.ret[k], f) = Label(CitizenFallback, f)
         /\ \A f \in Range(CitizenSensitive) :
              Get(last.ret[3 - k], f) # Label(CitizenFallback, f)

\* A request is stored whose citizen id no citizen has, and getAll returned
\* fewer records than service_requests holds.
OrphanDropped ==
    /\ last.op = "request.getAll" /\ ~last.threw
    /\ Len(last.ret) < Len(requests)
    /\ \E i \in DOMAIN requests : JoinCitizen(requests[i], citizens) = {}

(***************************************************************************)
(* The unset API key (SpecClient).                                         *)
(***************************************************************************)
\* authMethod api_key and FORTANIX_API_KEY not set: apiKey is undefined.
UnsetKey == cfg.authMethod = "api_key" /\ cfg.apiKey = UNDEF

\* authenticate() threw before any network call, left the session as it was
\* and did not enter demo mode.
AuthenticateThrows ==
    CallOf({"authenticate"}) =>
        /\ last'.threw /\ NetworkCalls(last') = {}
        /\ accessToken' = accessToken /\ tokenExpiry' = tokenExpiry
        /\ demoMode' = demoMode /\ ~demoMode'

\* C30 as stated: with authMethod api_key and the API key unset,
\* authenticate() throws before any network call and leaves token, expiry
\* and demoMode unchanged, every encryptData call throws, and every
\* decryptData call on a non-empty value throws.
C30_EveryEncryptThrows ==
    [][UnsetKey =>
         /\ AuthenticateThrows
         /\ CallOf({"encryptData"}) => last'.threw
         /\ CallOf({"decryptData"}) /\ Truthy(last'.arg) => last'.threw]_vars

\* C30, amended: with authMethod api_key and the API key unset,
\* authenticate() throws before any network call and leaves token, expiry
\* and demoMode unchanged, and every encryptData and decryptData call on a
\* non-empty value throws (on an empty one they return null).
C30_UnsetKeyThrows ==
    [][UnsetKey =>
         /\ AuthenticateThrows
         /\ CallOf({"encryptData", "decryptData"}) =>
              IF Truthy(last'.arg)
              THEN last'.threw /\ NetworkCalls(last') = {}
              ELSE ~last'.threw /\ last'.ret = NULL]_vars

\* decryptData of a stored legacy text with the key unset: it called
\* authenticate() and threw without a network call, and there is no session
\* and no demo mode.
C30_Witness ==
    /\ UnsetKey
    /\ last.op = "decryptData" /\ Truthy(last.arg) /\ ~IsEnvelope(last.arg)
    /\ last.threw /\ NetworkCalls(last) = {}
    /\ \E i \in DOMAIN last.log : last.log[i] = EvAuthenticate
    /\ accessToken = NULL /\ ~demoMode

====
